---- MODULE Spec2Model ----
(***************************************************************************)
(* Model of the trading-strategy backtester:                               *)
(*   scripts/backtest.py    run_backtest (the simulation loop)             *)
(*   scripts/strategies.py  Signal, the eight registered strategies        *)
(*   scripts/metrics.py     Trade, BacktestResult                          *)
(*   scripts/optimize.py    grid_search (the parameter sweep)              *)
(*                                                                         *)
(* Python floats are modelled as exact rationals <<n, d>> in lowest terms  *)
(* with d > 0; the values that float arithmetic can produce outside the    *)
(* reals (NaN, +inf, -inf) are the pairs <<0, 0>>, <<1, 0>> and <<-1, 0>>. *)
(* Python indices are 0-based: bar i of the code is data[i + 1] here, and  *)
(* the timestamp data.index[i] is the integer i.                           *)
(***************************************************************************)
EXTENDS Integers, Sequences, FiniteSets, TLC

VARIABLES
    strategy_name,   \* argument of run_backtest
    data,            \* argument: the bars, a sequence of [close, high, low]
    initial_capital, \* argument
    params,          \* argument: a mapping option name -> value (<<>> is {} or None)
    commission,      \* argument
    slippage,        \* argument
    pc,              \* position of the call: "call", "loop", "result", "done", "error"
    strategy,        \* the registry entry returned by get_strategy
    i,               \* loop variable of run_backtest
    slice_data,      \* the history handed to generate_signals on the last bar
    signal,          \* the Signal returned on the last bar
    cash,
    position,        \* None or [entry_time, entry_price, direction, size]
    position_size,
    trades,          \* the trade log
    equity,          \* the list of equity values
    result,          \* None or the BacktestResult
    exception,       \* None or the exception that ended the call
    snaps,           \* history: what each processed bar left behind, in order
    calls,           \* history: the calls of run_backtest that have ended
    trade,           \* a Trade object constructed on its own
    param_grid,      \* argument of grid_search: a sequence of [name, values]
    metric,          \* argument of grid_search
    combinations,    \* grid_search: list(product(*param_values))
    grid_i,          \* grid_search: the index of the combination being run
    results,         \* grid_search: the rows collected so far
    df,              \* grid_search: None or the table returned
    other_call,      \* None or the frame of a second, suspended call of run_backtest
    fn,              \* None or the function of metrics.py that is called on its own
    args,            \* the argument of that call
    ret,             \* None or the value the call returned
    gpc              \* position of the caller of run_backtest; "none" without one

\* what run_backtest neither reads nor writes: its callers' state
caller == <<calls, trade, param_grid, metric, combinations, grid_i, results, df, other_call,
           fn, args, ret, gpc>>

vars == <<strategy_name, data, initial_capital, params, commission, slippage,
          pc, strategy, i, slice_data, signal, cash, position, position_size,
          trades, equity, result, exception, snaps, caller>>

inputs == <<strategy_name, data, initial_capital, commission, slippage>>

\* Python's None (also the value of a local variable not assigned yet)
None == <<>>

-----------------------------------------------------------------------------
(* Float arithmetic.  A finite value is the exact rational <<n, d>>, d > 0, *)
(* in lowest terms; NaN is <<0, 0>>, +inf is <<1, 0>>, -inf is <<-1, 0>>.   *)
(* The operators follow IEEE 754 on the non-finite values (numpy scalars    *)
(* and pandas Series divide by zero to inf or NaN without raising).         *)

Abs(x) == IF x < 0 THEN -x ELSE x

Sgn(x) == IF x < 0 THEN -1 ELSE IF x > 0 THEN 1 ELSE 0

RECURSIVE GCD(_, _)
GCD(a, b) == IF b = 0 THEN a ELSE GCD(b, a % b)

NaN == <<0, 0>>

IsNaN(a) == a[1] = 0 /\ a[2] = 0

IsFinite(a) == a[2] # 0

IsInf(a) == a[2] = 0 /\ a[1] # 0

Frac(n, d) ==
    IF d = 0 THEN <<Sgn(n), 0>>
    ELSE LET g == GCD(Abs(n), Abs(d))
         IN  <<(Sgn(d) * n) \div g, Abs(d) \div g>>

R(n) == <<n, 1>>

Zero == R(0)

RSign(a) == Sgn(a[1])

RNeg(a) == <<-a[1], a[2]>>

RAdd(a, b) ==
    IF IsNaN(a) \/ IsNaN(b) THEN NaN
    ELSE IF IsInf(a) THEN (IF IsInf(b) /\ b[1] # a[1] THEN NaN ELSE a)
    ELSE IF IsInf(b) THEN b
    ELSE LET g == GCD(a[2], b[2])
         IN  Frac(a[1] * (b[2] \div g) + b[1] * (a[2] \div g), (a[2] \div g) * b[2])

RSub(a, b) == RAdd(a, RNeg(b))

RMul(a, b) ==
    IF IsNaN(a) \/ IsNaN(b) THEN NaN
    ELSE IF IsInf(a) \/ IsInf(b) THEN <<RSign(a) * RSign(b), 0>>
    ELSE LET g1 == GCD(Abs(a[1]), b[2])
             g2 == GCD(Abs(b[1]), a[2])
         IN  <<(a[1] \div g1) * (b[1] \div g2), (a[2] \div g2) * (b[2] \div g1)>>

\* x / 0 is inf with the sign of x and 0 / 0 is NaN; x / inf is 0
RDiv(a, b) ==
    IF IsNaN(a) \/ IsNaN(b) THEN NaN
    ELSE IF IsInf(b) THEN (IF IsInf(a) THEN NaN ELSE Zero)
    ELSE IF b[1] = 0 THEN <<RSign(a), 0>>
    ELSE IF IsInf(a) THEN <<RSign(a) * RSign(b), 0>>
    ELSE RMul(a, IF b[1] < 0 THEN <<-b[2], -b[1]>> ELSE <<b[2], b[1]>>)

\* the sign of n1/d1 - n2/d2 for d1, d2 > 0, by Euclid's algorithm
RECURSIVE Cmp(_, _, _, _)
Cmp(n1, d1, n2, d2) ==
    LET q1 == n1 \div d1
        q2 == n2 \div d2
        r1 == n1 % d1
        r2 == n2 % d2
    IN  IF q1 # q2 THEN Sgn(q1 - q2)
        ELSE IF r1 = 0 \/ r2 = 0 THEN Sgn(r1 - r2)
        ELSE Cmp(d2, r2, d1, r1)

\* comparisons with NaN are false
RLt(a, b) ==
    IF IsNaN(a) \/ IsNaN(b) THEN FALSE
    ELSE IF IsInf(a) \/ IsInf(b)
    THEN (IF IsInf(a) THEN a[1] ELSE 0) < (IF IsInf(b) THEN b[1] ELSE 0)
    ELSE Cmp(a[1], a[2], b[1], b[2]) < 0

RLe(a, b) == ~IsNaN(a) /\ ~IsNaN(b) /\ ~RLt(b, a)

RSq(a) == RMul(a, a)

\* c * sqrt(v) > x for finite c, x and finite v >= 0, decided on the squares
SqrtGt(c, v, x) ==
    IF RSign(c) >= 0
    THEN RSign(x) < 0 \/ RLt(RSq(x), RMul(RSq(c), v))
    ELSE RSign(x) < 0 /\ RLt(RMul(RSq(c), v), RSq(x))

\* c * sqrt(v) < x
SqrtLt(c, v, x) == SqrtGt(RNeg(c), v, RNeg(x))

-----------------------------------------------------------------------------
(* strategies.py                                                           *)

\* mutant: the exit field set whatever the strategy found
Signal_ExitAlways(entry, exit) == [entry |-> entry, exit |-> TRUE, direction |-> "long"]

\* Signal: strength is advisory and never read by run_backtest; it is left out
Signal(entry, exit) == [entry |-> entry, exit |-> exit, direction |-> "long"]

EmptySignal == Signal(FALSE, FALSE)

\* an exception raised instead of a value returned
Raise(kind, line) == [raised |-> kind, line |-> line]

Raised(v) == "raised" \in DOMAIN v

\* params.get(key, default)
Get(p, key, default) == IF key \in DOMAIN p THEN p[key] ELSE default

\* data["close"].iloc[k - 1]
Close(d, k) == R(d[k].close)

\* data["close"].iloc[-k], k >= 1
CloseBack(d, k) == Close(d, Len(d) - k + 1)

RECURSIVE SumClose(_, _, _)
SumClose(d, lo, hi) == IF lo > hi THEN 0 ELSE d[lo].close + SumClose(d, lo + 1, hi)

RECURSIVE SumSqClose(_, _, _)
SumSqClose(d, lo, hi) ==
    IF lo > hi THEN 0 ELSE d[lo].close * d[lo].close + SumSqClose(d, lo + 1, hi)

\* close.rolling(window=w).mean() at position k: NaN until the window is full;
\* pandas raises ValueError for w < 0
RollMean(d, k, w) ==
    IF k < w \/ k < 1 THEN NaN ELSE Frac(SumClose(d, k - w + 1, k), w)

\* the square of close.rolling(window=w).std() at position k (ddof = 1)
RollVar(d, k, w) ==
    IF k < w \/ k < 1 THEN NaN
    ELSE LET s1 == SumClose(d, k - w + 1, k)
             s2 == SumSqClose(d, k - w + 1, k)
         IN  Frac(w * s2 - s1 * s1, w * (w - 1))

\* one step of ewm(span=span, adjust=False).mean(): y' = (1 - alpha) y + alpha x;
\* pandas raises ValueError for span < 1
EmaStep(y, x, span) ==
    LET alpha == Frac(2, span + 1)
    IN  RAdd(RMul(RSub(R(1), alpha), y), RMul(alpha, x))

\* the length of the longest prefix of d whose closes all equal the first close
ConstPrefix(d) ==
    LET other == {j \in 1..Len(d) : d[j].close # d[1].close}
    IN  IF other = {} THEN Len(d)
        ELSE (CHOOSE j \in other : \A j2 \in other : j <= j2) - 1

\* the ewm recurrence from position c, where the mean is m, up to position k
RECURSIVE EmaFrom(_, _, _, _, _)
EmaFrom(d, k, c, m, span) ==
    IF k <= c THEN m ELSE EmaStep(EmaFrom(d, k - 1, c, m, span), Close(d, k), span)

\* close.ewm(span=span, adjust=False).mean() at position k: y1 = x1 and one
\* EmaStep per later position.  Over a prefix of equal closes x every step gives
\* (1 - alpha) x + alpha x = x, so the recurrence is started at the end of it.
EMA(d, k, span) == EmaFrom(d, k, ConstPrefix(d), Close(d, 1), span)

\* the crossing test shared by the three crossover strategies
Crossover(prev_fast, prev_slow, curr_fast, curr_slow) ==
    IF RLe(prev_fast, prev_slow) /\ RLt(curr_slow, curr_fast) THEN Signal(TRUE, FALSE)
    ELSE IF RLe(prev_slow, prev_fast) /\ RLt(curr_fast, curr_slow) THEN Signal(FALSE, TRUE)
    ELSE EmptySignal

SMAcrossover_generate_signals(d, p) ==
    LET fast == Get(p, "fast_period", 20)
        slow == Get(p, "slow_period", 50)
        n == Len(d)
    IN  IF n < slow + 1 THEN EmptySignal
        ELSE IF fast < 0 THEN Raise("ValueError", 58)
        ELSE IF slow < 0 THEN Raise("ValueError", 59)
        ELSE Crossover(RollMean(d, n - 1, fast), RollMean(d, n - 1, slow),
                       RollMean(d, n, fast), RollMean(d, n, slow))

EMAcrossover_generate_signals(d, p) ==
    LET fast == Get(p, "fast_period", 12)
        slow == Get(p, "slow_period", 26)
        n == Len(d)
    IN  IF n < slow + 1 THEN EmptySignal
        ELSE IF fast < 1 THEN Raise("ValueError", 90)
        ELSE IF slow < 1 THEN Raise("ValueError", 91)
        ELSE Crossover(EMA(d, n - 1, fast), EMA(d, n - 1, slow),
                       EMA(d, n, fast), EMA(d, n, slow))

\* delta.where(delta > 0, 0) and -delta.where(delta < 0, 0) at position k;
\* the first delta is NaN and becomes 0
Gain(d, k) == IF k > 1 /\ d[k].close > d[k - 1].close THEN d[k].close - d[k - 1].close ELSE 0

Loss(d, k) == IF k > 1 /\ d[k].close < d[k - 1].close THEN d[k - 1].close - d[k].close ELSE 0

RECURSIVE SumGain(_, _, _)
SumGain(d, lo, hi) == IF lo > hi THEN 0 ELSE Gain(d, lo) + SumGain(d, lo + 1, hi)

RECURSIVE SumLoss(_, _, _)
SumLoss(d, lo, hi) == IF lo > hi THEN 0 ELSE Loss(d, lo) + SumLoss(d, lo + 1, hi)

\* line 119: rs = gain / loss at position k, the rolling means of the gains and
\* of the losses; inf when there is no loss in the window, NaN when there is
\* no gain either
calculate_rs(d, k, period) ==
    LET gain == IF k < period \/ k < 1 THEN NaN ELSE Frac(SumGain(d, k - period + 1, k), period)
        loss == IF k < period \/ k < 1 THEN NaN ELSE Frac(SumLoss(d, k - period + 1, k), period)
    IN  RDiv(gain, loss)

\* RSIreversal._calculate_rsi at position k
calculate_rsi(d, k, period) ==
    RSub(R(100), RDiv(R(100), RAdd(R(1), calculate_rs(d, k, period))))

RSIreversal_generate_signals(d, p) ==
    LET period == Get(p, "period", 14)
        overbought == R(Get(p, "overbought", 70))
        oversold == R(Get(p, "oversold", 30))
        n == Len(d)
    IN  IF n < period + 1 THEN EmptySignal
        ELSE IF period < 0 THEN Raise("ValueError", 117)
        ELSE LET curr_rsi == calculate_rsi(d, n, period)
                 prev_rsi == calculate_rsi(d, n - 1, period)
             IN  IF RLe(prev_rsi, oversold) /\ RLt(oversold, curr_rsi)
                 THEN Signal(TRUE, FALSE)
                 ELSE IF RLe(overbought, prev_rsi) /\ RLt(curr_rsi, overbought)
                 THEN Signal(FALSE, TRUE)
                 ELSE EmptySignal

\* macd_line = fast_ema - slow_ema at position k
MacdLine(d, k, fast, slow) == RSub(EMA(d, k, fast), EMA(d, k, slow))

\* the recurrence of the signal line from position c, where it is m, up to k
RECURSIVE SignalFrom(_, _, _, _, _, _, _)
SignalFrom(d, k, c, m, fast, slow, signal_period) ==
    IF k <= c THEN m
    ELSE EmaStep(SignalFrom(d, k - 1, c, m, fast, slow, signal_period),
                 MacdLine(d, k, fast, slow), signal_period)

\* macd_line.ewm(span=signal_period, adjust=False).mean() at position k; over the
\* prefix of equal closes the MACD line and its mean are both 0
SignalLine(d, k, fast, slow, signal_period) ==
    SignalFrom(d, k, ConstPrefix(d), Zero, fast, slow, signal_period)

MACD_generate_signals(d, p) ==
    LET fast == Get(p, "fast", 12)
        slow == Get(p, "slow", 26)
        signal_period == Get(p, "signal", 9)
        n == Len(d)
    IN  IF n < slow + signal_period THEN EmptySignal
        ELSE IF fast < 1 THEN Raise("ValueError", 159)
        ELSE IF slow < 1 THEN Raise("ValueError", 160)
        ELSE IF signal_period < 1 THEN Raise("ValueError", 162)
        ELSE Crossover(MacdLine(d, n - 1, fast, slow),
                       SignalLine(d, n - 1, fast, slow, signal_period),
                       MacdLine(d, n, fast, slow),
                       SignalLine(d, n, fast, slow, signal_period))

\* c < sma - std * std_dev, with std = sqrt(var)
BelowLowerBand(c, sma, var, std_dev) ==
    /\ ~IsNaN(sma) /\ ~IsNaN(var)
    /\ SqrtLt(std_dev, var, RSub(sma, c))

\* c > sma + std * std_dev
AboveUpperBand(c, sma, var, std_dev) ==
    /\ ~IsNaN(sma) /\ ~IsNaN(var)
    /\ SqrtLt(std_dev, var, RSub(c, sma))

BollingerBands_generate_signals(d, p) ==
    LET period == Get(p, "period", 20)
        std_dev == R(Get(p, "std_dev", 2))
        n == Len(d)
    IN  IF n < period THEN EmptySignal
        ELSE IF period < 0 THEN Raise("ValueError", 196)
        ELSE LET sma1 == RollMean(d, n, period)
                 var1 == RollVar(d, n, period)
                 sma2 == RollMean(d, n - 1, period)
                 var2 == RollVar(d, n - 1, period)
                 curr_close == CloseBack(d, 1)
                 prev_close == CloseBack(d, 2)
                 band2 == ~IsNaN(sma2) /\ ~IsNaN(var2)
             IN  IF /\ band2 /\ ~BelowLowerBand(prev_close, sma2, var2, std_dev)
                    /\ BelowLowerBand(curr_close, sma1, var1, std_dev)
                 THEN Signal(TRUE, FALSE)
                 ELSE IF /\ band2 /\ ~AboveUpperBand(prev_close, sma2, var2, std_dev)
                         /\ AboveUpperBand(curr_close, sma1, var1, std_dev)
                 THEN Signal(FALSE, TRUE)
                 ELSE EmptySignal

RECURSIVE MaxHigh(_, _, _)
MaxHigh(d, lo, hi) ==
    IF lo = hi THEN d[lo].high
    ELSE LET m == MaxHigh(d, lo + 1, hi) IN IF d[lo].high > m THEN d[lo].high ELSE m

RECURSIVE MinLow(_, _, _)
MinLow(d, lo, hi) ==
    IF lo = hi THEN d[lo].low
    ELSE LET m == MinLow(d, lo + 1, hi) IN IF d[lo].low < m THEN d[lo].low ELSE m

Breakout_generate_signals(d, p) ==
    LET lookback == Get(p, "lookback", 20)
        threshold == Get(p, "threshold", 0)
        n == Len(d)
    IN  IF n < lookback + 1 THEN EmptySignal
        ELSE IF lookback = 0 THEN EmptySignal   \* max() of no bars is NaN
        ELSE LET high == MaxHigh(d, n - lookback, n - 1)
                 low == MinLow(d, n - lookback, n - 1)
                 curr_close == CloseBack(d, 1)
                 resistance == RMul(R(high), RAdd(R(1), Frac(threshold, 100)))
                 support == RMul(R(low), RSub(R(1), Frac(threshold, 100)))
             IN  IF RLt(resistance, curr_close) THEN Signal(TRUE, FALSE)
                 ELSE IF RLt(curr_close, support) THEN Signal(FALSE, TRUE)
                 ELSE EmptySignal

\* the z-score x / sqrt(var): NaN when x or var is NaN or both are 0
ZIsNaN(x, var) == IsNaN(x) \/ IsNaN(var) \/ (RSign(x) = 0 /\ RSign(var) = 0)

\* x / sqrt(var) < c
ZLt(x, var, c) ==
    /\ ~ZIsNaN(x, var)
    /\ IF RSign(var) = 0 THEN RSign(x) < 0 ELSE SqrtGt(c, var, x)

\* x / sqrt(var) >= c
ZGe(x, var, c) == ~ZIsNaN(x, var) /\ ~ZLt(x, var, c)

MeanReversion_generate_signals(d, p) ==
    LET period == Get(p, "period", 20)
        z_threshold == R(Get(p, "z_threshold", 2))
        n == Len(d)
    IN  IF n < period THEN EmptySignal
        ELSE IF period < 0 THEN Raise("ValueError", 269)
        ELSE LET x1 == RSub(CloseBack(d, 1), RollMean(d, n, period))
                 var1 == RollVar(d, n, period)
                 x2 == RSub(CloseBack(d, 2), RollMean(d, n - 1, period))
                 var2 == RollVar(d, n - 1, period)
             IN  IF ZLt(x1, var1, RNeg(z_threshold)) /\ ZGe(x2, var2, RNeg(z_threshold))
                 THEN Signal(TRUE, FALSE)
                 ELSE IF ZGe(x1, var1, Zero) /\ ZLt(x2, var2, Zero)
                 THEN Signal(FALSE, TRUE)
                 ELSE EmptySignal

Momentum_generate_signals(d, p) ==
    LET period == Get(p, "period", 14)
        threshold == R(Get(p, "threshold", 5))
        n == Len(d)
    IN  IF n < period + 1 THEN EmptySignal
        ELSE LET roc == RMul(RDiv(RSub(CloseBack(d, 1), CloseBack(d, period)),
                                  CloseBack(d, period)), R(100))
                 prev_roc == RMul(RDiv(RSub(CloseBack(d, 2), CloseBack(d, period + 1)),
                                       CloseBack(d, period + 1)), R(100))
             IN  IF RLe(prev_roc, threshold) /\ RLt(threshold, roc)
                 THEN Signal(TRUE, FALSE)
                 ELSE IF RLe(Zero, prev_roc) /\ RLt(roc, Zero)
                 THEN Signal(FALSE, TRUE)
                 ELSE EmptySignal

\* the registry: each instance's name and class attribute lookback
STRATEGIES ==
    [sma_crossover   |-> [name |-> "sma_crossover", lookback |-> 200],
     ema_crossover   |-> [name |-> "ema_crossover", lookback |-> 200],
     rsi_reversal    |-> [name |-> "rsi_reversal", lookback |-> 14],
     macd            |-> [name |-> "macd", lookback |-> 35],
     bollinger_bands |-> [name |-> "bollinger_bands", lookback |-> 20],
     breakout        |-> [name |-> "breakout", lookback |-> 20],
     mean_reversion  |-> [name |-> "mean_reversion", lookback |-> 20],
     momentum        |-> [name |-> "momentum", lookback |-> 14]]

\* mutant: the registered instance remembers the calls made before: its
\* lookback has grown by one with each of them
get_strategy_Stateful(name) ==
    IF name \notin DOMAIN STRATEGIES THEN Raise("ValueError", 330)
    ELSE [STRATEGIES[name] EXCEPT !.lookback = @ + Len(calls)]

\* mutant: an unknown name falls back to the first strategy
get_strategy_Fallback(name) ==
    IF name \notin DOMAIN STRATEGIES THEN STRATEGIES["sma_crossover"] ELSE STRATEGIES[name]

\* lines 327-331: the instance registered under the name, or ValueError
get_strategy(name) ==
    IF name \notin DOMAIN STRATEGIES THEN Raise("ValueError", 330) ELSE STRATEGIES[name]

\* strategy.generate_signals(data, params): dispatch on the instance
generate_signals(s, d, p) ==
    CASE s.name = "sma_crossover" -> SMAcrossover_generate_signals(d, p)
      [] s.name = "ema_crossover" -> EMAcrossover_generate_signals(d, p)
      [] s.name = "rsi_reversal" -> RSIreversal_generate_signals(d, p)
      [] s.name = "macd" -> MACD_generate_signals(d, p)
      [] s.name = "bollinger_bands" -> BollingerBands_generate_signals(d, p)
      [] s.name = "breakout" -> Breakout_generate_signals(d, p)
      [] s.name = "mean_reversion" -> MeanReversion_generate_signals(d, p)
      [] s.name = "momentum" -> Momentum_generate_signals(d, p)

-----------------------------------------------------------------------------
(* metrics.py                                                              *)

\* mutant: every trade is valued as a long one
Trade_post_init_AsLong(self) ==
    [self EXCEPT !.pnl = RMul(RSub(self.exit_price, self.entry_price), self.size),
                 !.pnl_pct = RMul(RDiv(RSub(self.exit_price, self.entry_price),
                                       self.entry_price), R(100)),
                 !.duration = self.exit_time - self.entry_time]

\* lines 25-32: __post_init__ overwrites pnl, pnl_pct and duration
Trade_post_init(self) ==
    LET diff == IF self.direction = "long"
                THEN RSub(self.exit_price, self.entry_price)
                ELSE RSub(self.entry_price, self.exit_price)
    IN  [self EXCEPT !.pnl = RMul(diff, self.size),
                     !.pnl_pct = RMul(RDiv(diff, self.entry_price), R(100)),
                     !.duration = self.exit_time - self.entry_time]

\* lines 15-23: the fields as the generated __init__ stores them
Trade_init(entry_time, exit_time, entry_price, exit_price, direction, size, pnl) ==
    [entry_time |-> entry_time, exit_time |-> exit_time,
     entry_price |-> entry_price, exit_price |-> exit_price,
     direction |-> direction, size |-> size,
     pnl |-> pnl, pnl_pct |-> Zero, duration |-> None]

Trade(entry_time, exit_time, entry_price, exit_price, direction, size) ==
    Trade_post_init(Trade_init(entry_time, exit_time, entry_price, exit_price,
                               direction, size, Zero))

-----------------------------------------------------------------------------
(* Inputs of the model.                                                    *)

MaxTail == 4

Prices == {80, 100, 125}

Bar(c) == [close |-> c, high |-> c + 5, low |-> c - 5]

Flat(n) == [k \in 1..n |-> Bar(100)]

RECURSIVE SeqsUpTo(_, _)
SeqsUpTo(S, n) ==
    IF n = 0 THEN {<<>>}
    ELSE LET shorter == SeqsUpTo(S, n - 1)
         IN  shorter \cup {Append(t, x) : t \in {u \in shorter : Len(u) = n - 1}, x \in S}

Tails == SeqsUpTo({Bar(c) : c \in Prices}, MaxTail)

\* histories of lookback - 1 flat warm-up bars followed by up to MaxTail free bars
DataSets(lookback) == {Flat(lookback - 1) \o t : t \in Tails}

ParamSets(name) ==
    CASE name = "sma_crossover" -> {<<>>, [fast_period |-> 1, slow_period |-> 2]}
      [] name = "ema_crossover" -> {<<>>, [fast_period |-> 1, slow_period |-> 3],
                                    [slow_period |-> 300]}
      [] name = "rsi_reversal" -> {<<>>, [period |-> 2]}
      [] name = "macd" -> {[fast |-> 1, slow |-> 3, signal |-> 3], [slow |-> 40]}
      [] name = "bollinger_bands" -> {<<>>, [period |-> 3, std_dev |-> 1]}
      [] name = "breakout" -> {<<>>, [lookback |-> 2, threshold |-> 10]}
      [] name = "mean_reversion" -> {<<>>, [period |-> 3, z_threshold |-> 1]}
      [] name = "momentum" -> {<<>>, [period |-> 2, threshold |-> 0]}

StrategyNames == DOMAIN STRATEGIES

InitialCapitals == {R(10000)}

Commissions == {Zero, Frac(1, 20), Frac(1, 10)}

Slippages == {Zero, Frac(1, 4), R(2)}

\* the strategies that are run under every pair of cost rates; the others are
\* run under one pair
CostSweep == {"breakout", "momentum"}

Costs(name) ==
    IF name \in CostSweep THEN Commissions \X Slippages
    ELSE {<<Frac(1, 20), Frac(1, 4)>>}

-----------------------------------------------------------------------------
(* backtest.py: run_backtest                                               *)

\* the locals of run_backtest when it is called: none is assigned yet
AtCall ==
    /\ pc = "call"
    /\ strategy = None
    /\ i = -1
    /\ slice_data = None
    /\ signal = None
    /\ cash = None
    /\ position = None
    /\ position_size = None
    /\ trades = None
    /\ equity = None
    /\ result = None
    /\ exception = None
    /\ snaps = <<>>

\* run_backtest is called once, on its own
NoCaller ==
    /\ calls = <<>>
    /\ trade = None
    /\ param_grid = None
    /\ metric = None
    /\ combinations = None
    /\ grid_i = -1
    /\ results = None
    /\ df = None
    /\ other_call = None
    /\ fn = None
    /\ args = None
    /\ ret = None
    /\ gpc = "none"

Init ==
    /\ strategy_name \in StrategyNames
    /\ data \in DataSets(STRATEGIES[strategy_name].lookback)
    /\ initial_capital \in InitialCapitals
    /\ params \in ParamSets(strategy_name)
    /\ \E cost \in Costs(strategy_name) : commission = cost[1] /\ slippage = cost[2]
    /\ AtCall
    /\ NoCaller

\* mutant: the loop starts one bar early
LoopStart_OneEarly(s) == s.lookback - 1

\* line 104: range(strategy.lookback, len(data)) starts at the lookback
LoopStart(s) == s.lookback

\* mutant: the equity list starts empty
InitialEquity_Empty(capital) == <<>>

\* line 99: equity = [initial_capital]
InitialEquity(capital) == <<capital>>

\* lines 95-104: params default, registry lookup, the run's state, loop start
Start ==
    /\ pc = "call"
    /\ params' = IF params = None THEN <<>> ELSE params
    /\ \E s \in {get_strategy(strategy_name)} :
          IF Raised(s)
          THEN /\ exception' = s
               /\ pc' = "error"
               /\ UNCHANGED <<strategy, trades, equity, cash, position, position_size, i>>
          ELSE /\ strategy' = s
               /\ trades' = <<>>
               /\ equity' = InitialEquity(initial_capital)
               /\ cash' = initial_capital
               /\ position' = None
               /\ position_size' = Zero
               /\ i' = LoopStart(strategy')
               /\ pc' = "loop"
               /\ exception' = exception
    /\ UNCHANGED <<inputs, slice_data, signal, result, snaps, caller>>

\* mutant: the purchase is filled at the close, without slippage
BuyPrice_AtClose(current_price, slip) == current_price

\* line 115
BuyPrice(current_price, slip) == RMul(current_price, RAdd(R(1), slip))

\* mutant: the sale is priced like a purchase
SellPrice_Markup(current_price, slip) == RMul(current_price, RAdd(R(1), slip))

\* lines 116, 159
SellPrice(current_price, slip) == RMul(current_price, RSub(R(1), slip))

\* mutant: an entry signal is executed whether or not a position is open
ShouldEnter_AnyState(sig, pos) == sig.entry

\* line 119
ShouldEnter(sig, pos) == sig.entry /\ pos = None

\* line 133 (the elif: reached only when line 119 was false)
ShouldExit(sig, pos) == ~ShouldEnter(sig, pos) /\ sig.exit /\ pos # None

\* mutant: all of the cash is invested
PositionValue_AllCash(c) == c

\* line 121
PositionValue(c) == RMul(c, Frac(95, 100))

\* lines 123-124
CashAfterEntry(c, position_value, rate) ==
    RSub(c, RAdd(position_value, RMul(position_value, rate)))

\* mutant: the sale is credited in full, no commission is taken
CashAfterExit_NoFee(c, exit_value, rate) == RAdd(c, exit_value)

\* lines 136-137 and 161-162
CashAfterExit(c, exit_value, rate) ==
    RAdd(c, RSub(exit_value, RMul(exit_value, rate)))

\* mutant: the open position is not marked to market
EquityPoint_CashOnly(c, pos, size, current_price) == c

\* lines 152-155
EquityPoint(c, pos, size, current_price) ==
    IF pos # None THEN RAdd(c, RMul(size, current_price)) ELSE c

\* mutant: the Trade is stamped with the time of its entry on both ends
ClosedTrade_AtEntry(pos, exit_time, exit_price) ==
    Trade(pos.entry_time, pos.entry_time, pos.entry_price, exit_price, pos.direction,
          pos.size)

\* lines 139-147 and 164-172: the Trade of a closed position
ClosedTrade(pos, exit_time, exit_price) ==
    Trade(pos.entry_time, exit_time, pos.entry_price, exit_price, pos.direction, pos.size)

\* mutant: the history reaches one bar past bar k when there is one
SliceUpTo_Peek(d, k) == SubSeq(d, 1, IF k + 2 <= Len(d) THEN k + 2 ELSE k + 1)

\* line 106: the history handed to the strategy on bar k, data.iloc[:k+1]
SliceUpTo(d, k) == SubSeq(d, 1, k + 1)

\* what bar k left behind: its signal, the state after it and its equity point
Snapshot(k, sig, c, pos, log, eq) ==
    [bar |-> k, signal |-> sig, cash |-> c, position |-> pos, trades |-> log,
     equity |-> eq]

\* lines 104-155: one iteration of the loop; an exception raised by the
\* strategy ends the call
Bar_ ==
    /\ pc = "loop"
    /\ i < Len(data)
    /\ \E sl \in {SliceUpTo(data, i)} :
       \E sig \in {generate_signals(strategy, sl, params)} :
       LET current_price == Close(data, i + 1)
           current_time == i
           buy_price == BuyPrice(current_price, slippage)
           sell_price == SellPrice(current_price, slippage)
       IN  IF Raised(sig)
           THEN /\ slice_data' = sl
                /\ exception' = sig
                /\ pc' = "error"
                /\ UNCHANGED <<signal, cash, position, position_size, trades, equity,
                               i, snaps>>
           ELSE
           /\ slice_data' = sl
           /\ signal' = sig
           /\ IF ShouldEnter(sig, position)
              THEN \E position_value \in {PositionValue(cash)} :
                      /\ position_size' = RDiv(position_value, buy_price)
                      /\ cash' = CashAfterEntry(cash, position_value, commission)
                      /\ position' = [entry_time |-> current_time,
                                      entry_price |-> buy_price,
                                      direction |-> sig.direction,
                                      size |-> position_size']
                      /\ trades' = trades
              ELSE IF ShouldExit(sig, position)
              THEN \E exit_value \in {RMul(position_size, sell_price)} :
                      /\ cash' = CashAfterExit(cash, exit_value, commission)
                      /\ trades' = Append(trades,
                                          ClosedTrade(position, current_time, sell_price))
                      /\ position' = None
                      /\ position_size' = Zero
              ELSE UNCHANGED <<cash, position, position_size, trades>>
           /\ equity' = Append(equity,
                               EquityPoint(cash', position', position_size', current_price))
           /\ snaps' = Append(snaps, Snapshot(i, sig, cash', position', trades',
                                              equity'[Len(equity')]))
           /\ i' = i + 1
           /\ UNCHANGED <<pc, exception>>
    /\ UNCHANGED <<inputs, params, strategy, result, caller>>

\* mutant: the forced close books no Trade
TradesAfterClose_NoTrade(log, pos, exit_time, exit_price) == log

\* lines 164-172: the trade log after the closing code
TradesAfterClose(log, pos, exit_time, exit_price) ==
    Append(log, ClosedTrade(pos, exit_time, exit_price))

\* lines 157-173: the loop is over; close any open position at the last close
CloseOpenPosition ==
    /\ pc = "loop"
    /\ i >= Len(data)
    /\ IF position # None
       THEN \E final_price \in {SellPrice(Close(data, Len(data)), slippage)} :
            \E exit_value \in {RMul(position_size, final_price)} :
               /\ cash' = CashAfterExit(cash, exit_value, commission)
               /\ trades' = TradesAfterClose(trades, position, Len(data) - 1, final_price)
               /\ equity' = [equity EXCEPT ![Len(equity)] = cash']
       ELSE UNCHANGED <<cash, trades, equity>>
    /\ pc' = "result"
    /\ UNCHANGED <<inputs, params, strategy, i, slice_data, signal, position,
                   position_size, result, exception, snaps, caller>>

\* mutant: an index made as long as the equity list
IndexFrom_AsLongAsEquity(k) == [j \in 1..Len(equity) |-> k + j - 1]

\* data.index[k:] for k >= 0: the timestamps k .. len(data) - 1
IndexFrom(k) == [j \in 1..(IF Len(data) > k THEN Len(data) - k ELSE 0) |-> k + j - 1]

\* mutant: the first equity value is reported
FinalCapital_First(eq) == eq[1]

\* line 185: final_capital=equity[-1]
FinalCapital(eq) == eq[Len(eq)]

\* lines 175-194: the equity Series and the BacktestResult; pd.Series raises
\* ValueError when the values and the index differ in length
BuildResult ==
    /\ pc = "result"
    /\ LET index == IndexFrom(strategy.lookback - 1)
       IN  IF Len(index) # Len(equity)
           THEN /\ pc' = "error"
                /\ exception' = Raise("ValueError", 176)
                /\ result' = None
           ELSE /\ pc' = "done"
                /\ exception' = exception
                /\ result' = [strategy |-> strategy_name,
                              start_date |-> 0,
                              end_date |-> Len(data) - 1,
                              initial_capital |-> initial_capital,
                              final_capital |-> FinalCapital(equity),
                              trades |-> trades,
                              equity_curve |-> [j \in 1..Len(equity) |->
                                                   [time |-> index[j], value |-> equity[j]]],
                              parameters |-> params]
    /\ UNCHANGED <<inputs, params, strategy, i, slice_data, signal, cash, position,
                   position_size, trades, equity, snaps, caller>>

Next == Start \/ Bar_ \/ CloseOpenPosition \/ BuildResult

Spec == Init /\ [][Next]_vars

-----------------------------------------------------------------------------
(* run_backtest called with arbitrary arguments: names outside the         *)
(* registry, histories shorter than the lookback, capital and cost rates   *)
(* of either sign.                                                         *)

MaxArgTail == 2

ArgNames == StrategyNames \cup {"buy_and_hold", ""}

ArgLookback(name) == IF name \in StrategyNames THEN STRATEGIES[name].lookback ELSE 20

ArgTails == SeqsUpTo({Bar(c) : c \in Prices}, MaxArgTail)

\* no bars, one bar, two bars fewer than the lookback, and the histories of
\* lookback - 1 flat bars followed by up to MaxArgTail free bars
ArgData(name) ==
    {Flat(n) : n \in {0, 1, ArgLookback(name) - 2}}
        \cup {Flat(ArgLookback(name) - 1) \o t : t \in ArgTails}

ArgParams(name) == IF name \in StrategyNames THEN ParamSets(name) ELSE {<<>>}

ArgCapitals == {R(-10000), R(10000)}

ArgCommissions == {Frac(-1, 20), Frac(1, 20)}

ArgSlippages == {Frac(-1, 4), Frac(1, 4)}

InitArgs ==
    /\ strategy_name \in ArgNames
    /\ data \in ArgData(strategy_name)
    /\ initial_capital \in ArgCapitals
    /\ params \in ArgParams(strategy_name)
    /\ commission \in ArgCommissions
    /\ slippage \in ArgSlippages
    /\ AtCall
    /\ NoCaller

SpecArgs == InitArgs /\ [][Next]_vars

-----------------------------------------------------------------------------
(* run_backtest called several times in a row by one process: the module   *)
(* level registry STRATEGIES is shared by the calls.  Each call that ended  *)
(* is recorded with its arguments, its outcome and what each bar left.      *)

MaxCalls == 3

ReplayNames == {"breakout", "momentum"}

ReplayParams(name) ==
    IF name = "momentum" THEN {[period |-> 2, threshold |-> 0]} ELSE {<<>>}

\* lookback flat bars, then up to two bars that rise or fall
ReplayData(name) ==
    {Flat(STRATEGIES[name].lookback) \o t : t \in SeqsUpTo({Bar(80), Bar(125)}, 2)}

ReplayArgs(name, d, p) ==
    /\ name \in ReplayNames
    /\ d \in ReplayData(name)
    /\ p \in ReplayParams(name)

InitReplay ==
    /\ ReplayArgs(strategy_name, data, params)
    /\ initial_capital = R(10000)
    /\ commission = Frac(1, 20)
    /\ slippage = Frac(1, 4)
    /\ AtCall
    /\ NoCaller

\* the call has ended (returned or raised): the caller records it and, while
\* fewer than MaxCalls calls were made, calls run_backtest again
CallAgain ==
    /\ gpc = "none"
    /\ pc \in {"done", "error"}
    /\ Len(calls) < MaxCalls
    /\ calls' = Append(calls, [strategy_name |-> strategy_name, data |-> data,
                               initial_capital |-> initial_capital, params |-> params,
                               commission |-> commission, slippage |-> slippage,
                               result |-> result, exception |-> exception,
                               snaps |-> snaps])
    /\ IF Len(calls') < MaxCalls
       THEN /\ \E name \in ReplayNames :
                  /\ strategy_name' = name
                  /\ data' \in ReplayData(name)
                  /\ params' \in ReplayParams(name)
            /\ pc' = "call"
            /\ strategy' = None
            /\ i' = -1
            /\ slice_data' = None
            /\ signal' = None
            /\ cash' = None
            /\ position' = None
            /\ position_size' = None
            /\ trades' = None
            /\ equity' = None
            /\ result' = None
            /\ exception' = None
            /\ snaps' = <<>>
       ELSE /\ pc' = "end"
            /\ UNCHANGED <<strategy_name, data, params, strategy, i, slice_data, signal,
                           cash, position, position_size, trades, equity, result,
                           exception, snaps>>
    /\ UNCHANGED <<initial_capital, commission, slippage, trade, param_grid, metric,
                   combinations, grid_i, results, df, other_call,
                   fn, args, ret, gpc>>

NextReplay == Next \/ CallAgain

SpecReplay == InitReplay /\ [][NextReplay]_vars

-----------------------------------------------------------------------------
(* run_backtest on trending prices: closes that keep making new highs or   *)
(* new lows over several bars.                                             *)

MaxTrendTail == 3

TrendPrices == {60, 80, 100, 125, 150}

TrendTails == SeqsUpTo({Bar(c) : c \in TrendPrices}, MaxTrendTail)

InitTrend ==
    /\ strategy_name \in StrategyNames
    /\ data \in {Flat(STRATEGIES[strategy_name].lookback - 1) \o t : t \in TrendTails}
    /\ initial_capital \in InitialCapitals
    /\ params \in ParamSets(strategy_name)
    /\ commission = Frac(1, 20)
    /\ slippage = Frac(1, 4)
    /\ AtCall
    /\ NoCaller

SpecTrend == InitTrend /\ [][Next]_vars
-----------------------------------------------------------------------------
(* run_backtest under its default cost rates (commission 0.1%, slippage    *)
(* 0.05%) on prices that rise from 90 and then fall, so that a run makes   *)
(* at most one round trip.                                                 *)

MaxScenarioTail == 4

ScenarioPrices == {90, 100, 110, 120}

\* the closes never rise again once they have fallen
RiseThenFall(t) ==
    \A a \in 1..(Len(t) - 1) : \A b \in (a + 1)..(Len(t) - 1) :
        t[a].close > t[a + 1].close => t[b].close >= t[b + 1].close

ScenarioTails ==
    {t \in SeqsUpTo({Bar(c) : c \in ScenarioPrices}, MaxScenarioTail) : RiseThenFall(t)}

ScenarioData(lookback) == {[k \in 1..lookback |-> Bar(90)] \o t : t \in ScenarioTails}

InitScenario ==
    /\ strategy_name = "momentum"
    /\ data \in ScenarioData(STRATEGIES[strategy_name].lookback)
    /\ initial_capital = R(10000)
    /\ params = [period |-> 2, threshold |-> 0]
    /\ commission = Frac(1, 1000)
    /\ slippage = Frac(5, 10000)
    /\ AtCall
    /\ NoCaller

SpecScenario == InitScenario /\ [][Next]_vars

-----------------------------------------------------------------------------
(* metrics.py: a Trade constructed on its own, outside any run.            *)

MaxTradeTime == 2

TradePrices == {R(80), R(100), R(125)}

TradeSizes == {R(1), Frac(3, 2)}

TradeDirections == {"long", "short"}

\* the control state and locals of run_backtest when no call is under way
NotCalled ==
    /\ pc = "none"
    /\ strategy = None
    /\ i = -1
    /\ slice_data = None
    /\ signal = None
    /\ cash = None
    /\ position = None
    /\ position_size = None
    /\ trades = None
    /\ equity = None
    /\ result = None
    /\ exception = None
    /\ snaps = <<>>

\* no argument of run_backtest is bound
NoArguments ==
    /\ strategy_name = None
    /\ data = None
    /\ initial_capital = None
    /\ params = None
    /\ commission = None
    /\ slippage = None

\* Trade(...) has stored its arguments, pnl among them when the caller gave
\* one, and is about to run __post_init__
InitTrade ==
    /\ NoArguments
    /\ NotCalled
    /\ calls = <<>>
    /\ param_grid = None
    /\ metric = None
    /\ combinations = None
    /\ grid_i = -1
    /\ results = None
    /\ df = None
    /\ other_call = None
    /\ fn = None
    /\ args = None
    /\ ret = None
    /\ gpc = "Trade.__init__"
    /\ \E entry_time \in 0..MaxTradeTime, exit_time \in 0..MaxTradeTime,
          entry_price \in TradePrices, exit_price \in TradePrices,
          direction \in TradeDirections, size \in TradeSizes, pnl \in {Zero, R(7)} :
            /\ entry_time <= exit_time
            /\ trade = Trade_init(entry_time, exit_time, entry_price, exit_price,
                                  direction, size, pnl)

PostInit ==
    /\ gpc = "Trade.__init__"
    /\ trade' = Trade_post_init(trade)
    /\ gpc' = "Trade"
    /\ UNCHANGED <<inputs, params, strategy, cash, position, position_size, trades,
                   equity, i, slice_data, signal, pc, result, exception, snaps,
                   calls, param_grid, metric, combinations, grid_i, results, df, other_call, fn, args, ret>>

NextTrade == PostInit

SpecTrade == InitTrade /\ [][NextTrade]_vars

-----------------------------------------------------------------------------
(* optimize.py: grid_search.  param_grid is the dict as the sequence of    *)
(* its items, in insertion order.  A row of the table holds the parameter  *)
(* columns and, of the eight metric columns, total_return and              *)
(* total_trades; the values of the other six are not modelled, and a sort  *)
(* by one of them may leave the rows in any order.                         *)

MaxGridTail == 3

\* metrics.py, line 82
calculate_total_return(initial, final) == RMul(RDiv(RSub(final, initial), initial), R(100))

\* first[1] x rest, first[2] x rest, ...
RECURSIVE Prepend(_, _)
Prepend(first, rest) ==
    IF first = <<>> THEN <<>>
    ELSE [j \in 1..Len(rest) |-> <<Head(first)>> \o rest[j]] \o Prepend(Tail(first), rest)

\* itertools.product(*param_values) as a list: the last value list runs fastest
RECURSIVE product(_)
product(param_values) ==
    IF param_values = <<>> THEN << <<>> >>
    ELSE Prepend(Head(param_values), product(Tail(param_values)))

param_names_of(grid) == [j \in 1..Len(grid) |-> grid[j].name]

param_values_of(grid) == [j \in 1..Len(grid) |-> grid[j].values]

\* dict(zip(param_names, combo))
DictZip(names, combo) ==
    [key \in {names[j] : j \in 1..Len(names)} |->
        combo[CHOOSE j \in 1..Len(names) : names[j] = key /\ \A l \in (j + 1)..Len(names) : names[l] # key]]

ModelledMetrics == {"total_return", "total_trades"}

OtherMetrics == {"sharpe_ratio", "sortino_ratio", "max_drawdown", "win_rate",
                 "profit_factor", "calmar_ratio"}

\* lines 55-65: the row of a completed run
Row(p, res) ==
    [column \in DOMAIN p \cup ModelledMetrics |->
        IF column = "total_return"
        THEN calculate_total_return(res.initial_capital, res.final_capital)
        ELSE IF column = "total_trades" THEN Len(res.trades)
        ELSE p[column]]

\* the columns of pd.DataFrame(results)
Columns(rows) ==
    IF rows = <<>> THEN {} ELSE DOMAIN rows[1] \cup OtherMetrics

\* the value a row is ranked by
SortKey(row, column) == IF column = "total_return" THEN row[column] ELSE R(row[column])

RowOrders(n) == {f \in [1..n -> 1..n] : \A a \in 1..n : \E b \in 1..n : f[b] = a}

\* df.sort_values(column, ascending=False): the orders the rows may come out in
sort_values(rows, column) ==
    {[j \in 1..Len(rows) |-> rows[f[j]]] : f \in
        {g \in RowOrders(Len(rows)) :
            column \in OtherMetrics \/
            \A j \in 1..(Len(rows) - 1) :
                RLe(SortKey(rows[g[j + 1]], column), SortKey(rows[g[j]], column))}}

\* mutant: the first failing combination ends the sweep
AfterException_Abort(k, n) == n

\* lines 71-73: the failing combination is skipped, the loop goes on
AfterException(k, n) == k + 1

GridStrategies == {"rsi_reversal"}

Grids ==
    {<<>>,
     <<[name |-> "period", values |-> <<>>]>>,
     <<[name |-> "period", values |-> <<2, -1, 3>>]>>,
     <<[name |-> "period", values |-> <<-1, 2>>], [name |-> "oversold", values |-> <<30, 50>>]>>,
     <<[name |-> "oversold", values |-> <<50, 30>>], [name |-> "period", values |-> <<2, -1>>]>>}

GridMetrics == {"sharpe_ratio", "total_return", "total_trades", "period", "cagr"}

GridTails == SeqsUpTo({Bar(c) : c \in Prices}, MaxGridTail)

GridData(lookback) == {Flat(lookback - 2)} \cup {Flat(lookback - 1) \o t : t \in GridTails}

\* grid_search has been called; run_backtest has not
InitGrid ==
    /\ strategy_name \in GridStrategies
    /\ data \in GridData(STRATEGIES[strategy_name].lookback)
    /\ initial_capital = R(10000)
    /\ param_grid \in Grids
    /\ metric \in GridMetrics
    /\ params = None
    /\ commission = None
    /\ slippage = None
    /\ NotCalled
    /\ calls = <<>>
    /\ trade = None
    /\ combinations = None
    /\ grid_i = -1
    /\ results = None
    /\ df = None
    /\ other_call = None
    /\ fn = None
    /\ args = None
    /\ ret = None
    /\ gpc = "grid_search"

\* lines 36-42
GridStart ==
    /\ gpc = "grid_search"
    /\ combinations' = product(param_values_of(param_grid))
    /\ results' = <<>>
    /\ grid_i' = 0
    /\ gpc' = "for"
    /\ UNCHANGED <<inputs, params, strategy, cash, position, position_size, trades,
                   equity, i, slice_data, signal, pc, result, exception, snaps,
                   calls, trade, param_grid, metric, df, other_call, fn, args, ret>>

\* lines 44-53: the next combination is handed to run_backtest, which takes
\* its default commission and slippage
GridCall ==
    /\ gpc = "for"
    /\ grid_i < Len(combinations)
    /\ params' = DictZip(param_names_of(param_grid), combinations[grid_i + 1])
    /\ commission' = Frac(1, 1000)
    /\ slippage' = Frac(5, 10000)
    /\ pc' = "call"
    /\ strategy' = None
    /\ i' = -1
    /\ slice_data' = None
    /\ signal' = None
    /\ cash' = None
    /\ position' = None
    /\ position_size' = None
    /\ trades' = None
    /\ equity' = None
    /\ result' = None
    /\ exception' = None
    /\ snaps' = <<>>
    /\ gpc' = "try"
    /\ UNCHANGED <<strategy_name, data, initial_capital, calls, trade, param_grid,
                   metric, combinations, grid_i, results, df, other_call, fn, args, ret>>

\* lines 55-65: run_backtest has returned, its row is appended
GridCollect ==
    /\ gpc = "try"
    /\ pc = "done"
    /\ results' = Append(results, Row(params, result))
    /\ calls' = Append(calls, [params |-> params, result |-> result, exception |-> None])
    /\ grid_i' = grid_i + 1
    /\ gpc' = "for"
    /\ pc' = "none"
    /\ UNCHANGED <<inputs, params, strategy, cash, position, position_size, trades,
                   equity, i, slice_data, signal, result, exception, snaps,
                   trade, param_grid, metric, combinations, df, other_call, fn, args, ret>>

\* lines 71-73: run_backtest has raised
GridExcept ==
    /\ gpc = "try"
    /\ pc = "error"
    /\ calls' = Append(calls, [params |-> params, result |-> None, exception |-> exception])
    /\ grid_i' = AfterException(grid_i, Len(combinations))
    /\ gpc' = "for"
    /\ pc' = "none"
    /\ UNCHANGED <<inputs, params, strategy, cash, position, position_size, trades,
                   equity, i, slice_data, signal, result, exception, snaps,
                   trade, param_grid, metric, combinations, results, df, other_call, fn, args, ret>>

\* lines 75-81
GridReturn ==
    /\ gpc = "for"
    /\ grid_i >= Len(combinations)
    /\ IF metric \in Columns(results)
       THEN df' \in sort_values(results, metric)
       ELSE df' = results
    /\ gpc' = "return"
    /\ UNCHANGED <<inputs, params, strategy, cash, position, position_size, trades,
                   equity, i, slice_data, signal, pc, result, exception, snaps,
                   calls, trade, param_grid, metric, combinations, grid_i, results,
                   other_call, fn, args, ret>>

NextGrid ==
    \/ GridStart \/ GridCall \/ GridCollect \/ GridExcept \/ GridReturn
    \/ Start \/ Bar_ \/ CloseOpenPosition \/ BuildResult

SpecGrid == InitGrid /\ [][NextGrid]_vars

-----------------------------------------------------------------------------
(* Two calls of run_backtest in one process, on the same registry entry    *)
(* and the same bars, interleaved bar by bar.  Each call is first run on   *)
(* its own; then both are started and the scheduler switches between them  *)
(* at will.  The variables of run_backtest hold the frame of the call that *)
(* is running, other_call holds the frame of the suspended one.            *)

MaxPairTail == 2

PairNames == {"breakout", "momentum"}

PairData(name) ==
    {Flat(STRATEGIES[name].lookback) \o t : t \in SeqsUpTo({Bar(80), Bar(125)}, MaxPairTail)}

PairCapitals == {R(10000), R(20000)}

\* the frame of a call that has bound its arguments and run nothing yet
NewFrame(capital, p, rate, slip) ==
    [initial_capital |-> capital, params |-> p, commission |-> rate, slippage |-> slip,
     pc |-> "call", strategy |-> None, i |-> -1, slice_data |-> None, signal |-> None,
     cash |-> None, position |-> None, position_size |-> None, trades |-> None,
     equity |-> None, result |-> None, exception |-> None, snaps |-> <<>>]

\* the frame of the running call: its own arguments and locals
Suspended ==
    [initial_capital |-> initial_capital, params |-> params, commission |-> commission,
     slippage |-> slippage, pc |-> pc, strategy |-> strategy, i |-> i,
     slice_data |-> slice_data, signal |-> signal, cash |-> cash, position |-> position,
     position_size |-> position_size, trades |-> trades, equity |-> equity,
     result |-> result, exception |-> exception, snaps |-> snaps]

\* mutant: the equity list is one list for the process, a resumed call finds
\* in it what the other call left
Resumed_SharedEquity(frame) == [frame EXCEPT !.equity = equity]

\* a call resumes with the frame it was suspended with
Resumed(frame) == frame

\* the running call's variables take the values of a frame
Load(frame) ==
    /\ initial_capital' = frame.initial_capital
    /\ params' = frame.params
    /\ commission' = frame.commission
    /\ slippage' = frame.slippage
    /\ pc' = frame.pc
    /\ strategy' = frame.strategy
    /\ i' = frame.i
    /\ slice_data' = frame.slice_data
    /\ signal' = frame.signal
    /\ cash' = frame.cash
    /\ position' = frame.position
    /\ position_size' = frame.position_size
    /\ trades' = frame.trades
    /\ equity' = frame.equity
    /\ result' = frame.result
    /\ exception' = frame.exception
    /\ snaps' = frame.snaps

Finished(frame) == frame.pc \in {"done", "error"}

\* the first call is made on its own; the arguments of the second are chosen
InitPair ==
    /\ strategy_name \in PairNames
    /\ data \in PairData(strategy_name)
    /\ initial_capital \in PairCapitals
    /\ params \in ReplayParams(strategy_name)
    /\ commission = Frac(1, 20)
    /\ slippage = Frac(1, 4)
    /\ AtCall
    /\ calls = <<>>
    /\ trade = None
    /\ param_grid = None
    /\ metric = None
    /\ combinations = None
    /\ grid_i = -1
    /\ results = None
    /\ df = None
    /\ other_call \in {NewFrame(capital, p, Frac(1, 20), Frac(1, 4)) :
                      capital \in PairCapitals, p \in ReplayParams(strategy_name)}
    /\ fn = None
    /\ args = None
    /\ ret = None
    /\ gpc = "alone1"

\* the first call has ended on its own: its outcome is kept and the second
\* call is made on its own
SecondAlone ==
    /\ gpc = "alone1"
    /\ Finished(Suspended)
    /\ calls' = Append(calls, Suspended)
    /\ Load(other_call)
    /\ other_call' = NewFrame(initial_capital, params, commission, slippage)
    /\ gpc' = "alone2"
    /\ UNCHANGED <<strategy_name, data, trade, param_grid, metric, combinations,
                   grid_i, results, df, fn, args, ret>>

\* the second call has ended on its own: both calls are made again, this
\* time together
Together ==
    /\ gpc = "alone2"
    /\ Finished(Suspended)
    /\ calls' = Append(calls, Suspended)
    /\ Load(other_call)
    /\ other_call' = NewFrame(initial_capital, params, commission, slippage)
    /\ gpc' = "run1"
    /\ UNCHANGED <<strategy_name, data, trade, param_grid, metric, combinations,
                   grid_i, results, df, fn, args, ret>>

\* the scheduler suspends the running call and resumes the other_call one
Switch ==
    /\ gpc \in {"run1", "run2"}
    /\ ~Finished(other_call)
    /\ Load(Resumed(other_call))
    /\ other_call' = Suspended
    /\ gpc' = IF gpc = "run1" THEN "run2" ELSE "run1"
    /\ UNCHANGED <<strategy_name, data, calls, trade, param_grid, metric, combinations,
                   grid_i, results, df, fn, args, ret>>

NextPair == Next \/ SecondAlone \/ Together \/ Switch

SpecPair == InitPair /\ [][NextPair]_vars

-----------------------------------------------------------------------------
(* metrics.py: the metric functions, each called on its own.  A Series is  *)
(* the sequence of its values.                                             *)

\* no call of run_backtest, grid_search or Trade is under way
NoBacktest ==
    /\ NoArguments
    /\ NotCalled
    /\ calls = <<>>
    /\ trade = None
    /\ param_grid = None
    /\ metric = None
    /\ combinations = None
    /\ grid_i = -1
    /\ results = None
    /\ df = None
    /\ other_call = None
    /\ gpc = "none"

\* what a call of a metric function leaves alone
backtest == <<inputs, params, strategy, cash, position, position_size, trades, equity, i,
              slice_data, signal, pc, result, exception, snaps, calls, trade, param_grid,
              metric, combinations, grid_i, results, df, other_call, gpc>>

\* Series.min(), Series.max(): NaN values are skipped, NaN when none is left
SeriesMin(s) ==
    LET kept == {k \in 1..Len(s) : ~IsNaN(s[k])}
    IN  IF kept = {} THEN NaN
        ELSE s[CHOOSE k \in kept : \A l \in kept : RLe(s[k], s[l])]

SeriesMax(s) ==
    LET kept == {k \in 1..Len(s) : ~IsNaN(s[k])}
    IN  IF kept = {} THEN NaN
        ELSE s[CHOOSE k \in kept : \A l \in kept : RLe(s[l], s[k])]

\* line 130: equity_curve.expanding().max()
ExpandingMax(curve) == [k \in 1..Len(curve) |-> SeriesMax(SubSeq(curve, 1, k))]

\* line 131
Drawdowns(curve) ==
    LET rolling_max == ExpandingMax(curve)
    IN  [k \in 1..Len(curve) |->
            RMul(RDiv(RSub(curve[k], rolling_max[k]), rolling_max[k]), R(100))]

\* mutant: all bars in drawdown are counted as one period
drawdown_periods_Total(in_drawdown, k, start) ==
    <<Cardinality({j \in 1..Len(in_drawdown) : in_drawdown[j]})>>

\* lines 141-150: the lengths of the runs of True in in_drawdown, from
\* position k on, start being the 0-based position where the current run
\* began, -1 for None
RECURSIVE drawdown_periods(_, _, _)
drawdown_periods(in_drawdown, k, start) ==
    IF k > Len(in_drawdown)
    THEN IF start # -1 THEN <<Len(in_drawdown) - start>> ELSE <<>>
    ELSE IF in_drawdown[k] /\ start = -1
    THEN drawdown_periods(in_drawdown, k + 1, k - 1)
    ELSE IF ~in_drawdown[k] /\ start # -1
    THEN <<(k - 1) - start>> \o drawdown_periods(in_drawdown, k + 1, -1)
    ELSE drawdown_periods(in_drawdown, k + 1, start)

\* max() of a list of integers
MaxOf(list) == CHOOSE x \in {list[k] : k \in 1..Len(list)} : \A k \in 1..Len(list) : list[k] <= x

\* mutant: the deepest drawdown is taken for the shallowest
calculate_max_drawdown_Max(equity_curve) ==
    IF Len(equity_curve) < 2 THEN <<Zero, 0>>
    ELSE <<SeriesMax(Drawdowns(equity_curve)), 0>>

\* lines 122-154: the pair (max_dd, max_duration)
calculate_max_drawdown(equity_curve) ==
    IF Len(equity_curve) < 2 THEN <<Zero, 0>>
    ELSE LET drawdowns == Drawdowns(equity_curve)
             max_dd == SeriesMin(drawdowns)
             in_drawdown == [k \in 1..Len(drawdowns) |-> RLt(drawdowns[k], Zero)]
         IN  IF \A k \in 1..Len(in_drawdown) : ~in_drawdown[k] THEN <<Zero, 0>>
             ELSE LET periods == drawdown_periods(in_drawdown, 1, -1)
                  IN  <<max_dd, IF periods # <<>> THEN MaxOf(periods) ELSE 0>>

MaxCurve == 5

CurveValues == {R(0), R(90), R(95), R(100), R(120), R(130)}

Curves == SeqsUpTo(CurveValues, MaxCurve)

InitDrawdown ==
    /\ NoBacktest
    /\ fn = "calculate_max_drawdown"
    /\ args \in Curves
    /\ ret = None

Call_max_drawdown ==
    /\ fn = "calculate_max_drawdown"
    /\ ret = None
    /\ ret' = calculate_max_drawdown(args)
    /\ UNCHANGED <<backtest, fn, args>>

NextDrawdown == Call_max_drawdown

SpecDrawdown == InitDrawdown /\ [][NextDrawdown]_vars

-----------------------------------------------------------------------------
(* metrics.py: calculate_trade_stats.  A trade of the log is given by its  *)
(* pnl and its duration in days.                                           *)

\* [t for t in trades if t.pnl > 0], [t for t in trades if t.pnl < 0]
Wins(log) == SelectSeq(log, LAMBDA t : RLt(Zero, t.pnl))

Losses(log) == SelectSeq(log, LAMBDA t : RLt(t.pnl, Zero))

\* sum(t.pnl for t in log)
RECURSIVE SumPnl(_)
SumPnl(log) == IF log = <<>> THEN Zero ELSE RAdd(Head(log).pnl, SumPnl(Tail(log)))

RAbs(a) == IF RSign(a) < 0 THEN RNeg(a) ELSE a

\* np.mean of the pnl of a non-empty list
MeanPnl(log) == RDiv(SumPnl(log), R(Len(log)))

\* mutant: the counters count all winning and all losing trades
Streaks_Totals(log, k, current_wins, current_losses, max_consec_wins, max_consec_losses) ==
    <<Cardinality({j \in 1..Len(log) : RLt(Zero, log[j].pnl)}),
      Cardinality({j \in 1..Len(log) : RLt(log[j].pnl, Zero)})>>

\* lines 225-238: the loop over the trades from position k on
RECURSIVE Streaks(_, _, _, _, _, _)
Streaks(log, k, current_wins, current_losses, max_consec_wins, max_consec_losses) ==
    IF k > Len(log) THEN <<max_consec_wins, max_consec_losses>>
    ELSE IF RLt(Zero, log[k].pnl)
    THEN Streaks(log, k + 1, current_wins + 1, 0,
                 IF max_consec_wins >= current_wins + 1 THEN max_consec_wins
                 ELSE current_wins + 1,
                 max_consec_losses)
    ELSE Streaks(log, k + 1, 0, current_losses + 1, max_consec_wins,
                 IF max_consec_losses >= current_losses + 1 THEN max_consec_losses
                 ELSE current_losses + 1)

\* f"{x:.1f}d": the text is kept as the number it renders
Format1d(x) == [format |-> ".1fd", value |-> x]

\* lines 241-242
AvgDuration(log) ==
    LET durations == SelectSeq([k \in 1..Len(log) |-> log[k].duration], LAMBDA d : d # 0)
        RECURSIVE Sum(_)
        Sum(q) == IF q = <<>> THEN 0 ELSE Head(q) + Sum(Tail(q))
    IN  IF durations # <<>> THEN Format1d(Frac(Sum(durations), Len(durations))) ELSE "0d"

\* mutant: a log without a losing trade has profit factor 0
ProfitFactor_ZeroWithoutLoss(gross_profit, gross_loss) ==
    IF RLt(Zero, gross_loss) THEN RDiv(gross_profit, gross_loss) ELSE Zero

\* line 216
ProfitFactor(gross_profit, gross_loss) ==
    IF RLt(Zero, gross_loss) THEN RDiv(gross_profit, gross_loss) ELSE <<1, 0>>

\* mutant: the empty log is not told apart
EmptyStats_NaN ==
    [total_trades |-> 0, win_rate |-> NaN, profit_factor |-> NaN, avg_win |-> NaN,
     avg_loss |-> NaN, expectancy |-> NaN, max_consecutive_wins |-> 0,
     max_consecutive_losses |-> 0, avg_trade_duration |-> "0d"]

\* lines 195-206
EmptyStats ==
    [total_trades |-> 0, win_rate |-> Zero, profit_factor |-> Zero, avg_win |-> Zero,
     avg_loss |-> Zero, expectancy |-> Zero, max_consecutive_wins |-> 0,
     max_consecutive_losses |-> 0, avg_trade_duration |-> "0d"]

\* lines 193-254
calculate_trade_stats(log) ==
    IF log = <<>> THEN EmptyStats
    ELSE LET wins == Wins(log)
             losses == Losses(log)
             total_trades == Len(log)
             win_rate == IF total_trades > 0
                         THEN RMul(Frac(Len(wins), total_trades), R(100)) ELSE Zero
             gross_profit == IF wins # <<>> THEN SumPnl(wins) ELSE Zero
             gross_loss == IF losses # <<>> THEN RAbs(SumPnl(losses)) ELSE Zero
             avg_win == IF wins # <<>> THEN MeanPnl(wins) ELSE Zero
             avg_loss == IF losses # <<>> THEN MeanPnl(losses) ELSE Zero
             expectancy == RSub(RMul(RDiv(win_rate, R(100)), avg_win),
                                RMul(RSub(R(1), RDiv(win_rate, R(100))), RAbs(avg_loss)))
             streaks == Streaks(log, 1, 0, 0, 0, 0)
         IN  [total_trades |-> total_trades, win_rate |-> win_rate,
              profit_factor |-> ProfitFactor(gross_profit, gross_loss),
              avg_win |-> avg_win, avg_loss |-> avg_loss, expectancy |-> expectancy,
              max_consecutive_wins |-> streaks[1], max_consecutive_losses |-> streaks[2],
              avg_trade_duration |-> AvgDuration(log)]

MaxTrades == 4

PnlValues == {R(-20), R(-10), Zero, R(10), R(30)}

\* a closed trade lasts a day, or no time at all when it was closed on the
\* bar it was entered on
TradeLogs == SeqsUpTo({[pnl |-> x, duration |-> IF x = R(-10) THEN 0 ELSE 1] : x \in PnlValues},
                      MaxTrades)

InitTradeStats ==
    /\ NoBacktest
    /\ fn = "calculate_trade_stats"
    /\ args \in TradeLogs
    /\ ret = None

Call_trade_stats ==
    /\ fn = "calculate_trade_stats"
    /\ ret = None
    /\ ret' = calculate_trade_stats(args)
    /\ UNCHANGED <<backtest, fn, args>>

NextTradeStats == Call_trade_stats

SpecTradeStats == InitTradeStats /\ [][NextTradeStats]_vars

-----------------------------------------------------------------------------
(* metrics.py: calculate_sharpe_ratio and calculate_sortino_ratio.  A      *)
(* ratio whose denominator is a square root is kept with its numerator and *)
(* the square of its denominator.                                          *)

RECURSIVE SeriesSum(_)
SeriesSum(s) == IF s = <<>> THEN Zero ELSE RAdd(Head(s), SeriesSum(Tail(s)))

\* Series.mean(): NaN for an empty series
SeriesMean(s) == RDiv(SeriesSum(s), R(Len(s)))

\* the square of Series.std(), the sample standard deviation (ddof = 1): NaN
\* for fewer than 2 values
SeriesVar(s) ==
    LET mean == SeriesMean(s)
    IN  RDiv(SeriesSum([k \in 1..Len(s) |-> RSq(RSub(s[k], mean))]), R(Len(s) - 1))

\* numerator / sqrt(square), as a triple
OverSqrt(numerator, square) == <<numerator, "/ sqrt", square>>

\* mutant: the guard on the standard deviation is missing
calculate_sharpe_ratio_Unguarded(returns, risk_free_rate) ==
    IF Len(returns) < 2 THEN Zero
    ELSE OverSqrt(RSub(RMul(SeriesMean(returns), R(252)), risk_free_rate),
                  RMul(SeriesVar(returns), R(252)))

\* lines 92-104
calculate_sharpe_ratio(returns, risk_free_rate) ==
    IF Len(returns) < 2 \/ RSign(SeriesVar(returns)) = 0 THEN Zero
    ELSE OverSqrt(RSub(RMul(SeriesMean(returns), R(252)), risk_free_rate),
                  RMul(SeriesVar(returns), R(252)))

\* lines 107-119
calculate_sortino_ratio(returns, risk_free_rate) ==
    IF Len(returns) < 2 THEN Zero
    ELSE LET downside_returns == SelectSeq(returns, LAMBDA x : RLt(x, Zero))
         IN  IF Len(downside_returns) = 0
                \/ (~IsNaN(SeriesVar(downside_returns))
                    /\ RSign(SeriesVar(downside_returns)) = 0)
             THEN IF RLt(Zero, SeriesMean(returns)) THEN <<1, 0>> ELSE Zero
             ELSE OverSqrt(RSub(RMul(SeriesMean(returns), R(252)), risk_free_rate),
                           RMul(SeriesVar(downside_returns), R(252)))

MaxReturns == 4

ReturnValues == {Frac(-1, 10), Zero, Frac(1, 10)}

ReturnSeries == SeqsUpTo(ReturnValues, MaxReturns)

\* the default risk_free_rate
RiskFreeRate == Frac(2, 100)

InitRatios ==
    /\ NoBacktest
    /\ fn \in {"calculate_sharpe_ratio", "calculate_sortino_ratio"}
    /\ args \in ReturnSeries
    /\ ret = None

Call_sharpe_ratio ==
    /\ fn = "calculate_sharpe_ratio"
    /\ ret = None
    /\ ret' = calculate_sharpe_ratio(args, RiskFreeRate)
    /\ UNCHANGED <<backtest, fn, args>>

Call_sortino_ratio ==
    /\ fn = "calculate_sortino_ratio"
    /\ ret = None
    /\ ret' = calculate_sortino_ratio(args, RiskFreeRate)
    /\ UNCHANGED <<backtest, fn, args>>

NextRatios == Call_sharpe_ratio \/ Call_sortino_ratio

SpecRatios == InitRatios /\ [][NextRatios]_vars

-----------------------------------------------------------------------------
(* metrics.py: calculate_var and calculate_cvar, both called on one return *)
(* series; ret collects what each of them returned.                        *)

\* the value at 0-based position k of the sorted series
KthSmallest(s, k) ==
    CHOOSE v \in {s[j] : j \in 1..Len(s)} :
        /\ Cardinality({j \in 1..Len(s) : RLt(s[j], v)}) <= k
        /\ Cardinality({j \in 1..Len(s) : RLe(s[j], v)}) > k

\* np.percentile(s, q) with linear interpolation, q a whole number of percent
Percentile(s, q) ==
    LET below == ((Len(s) - 1) * q) \div 100
        part == Frac(((Len(s) - 1) * q) % 100, 100)
        lower == KthSmallest(s, below)
        upper == IF below + 1 < Len(s) THEN KthSmallest(s, below + 1) ELSE lower
    IN  RAdd(lower, RMul(part, RSub(upper, lower)))

\* lines 164-168, the confidence in percent
calculate_var(returns, confidence_pct) ==
    IF Len(returns) < 10 THEN Zero ELSE Percentile(returns, 100 - confidence_pct)

\* mutant: the expected shortfall is the mean of the returns above the VaR
calculate_cvar_Upper(returns, confidence_pct) ==
    LET var == calculate_var(returns, confidence_pct)
        tail == SelectSeq(returns, LAMBDA x : RLt(var, x))
    IN  IF Len(tail) > 0 THEN SeriesMean(tail) ELSE var

\* lines 171-174
calculate_cvar(returns, confidence_pct) ==
    LET var == calculate_var(returns, confidence_pct)
        tail == SelectSeq(returns, LAMBDA x : RLe(x, var))
    IN  IF Len(tail) > 0 THEN SeriesMean(tail) ELSE var

MaxVarReturns == 11

VarValues == <<Frac(-1, 5), Frac(-1, 10), Zero, Frac(1, 10)>>

Repeat(x, n) == [k \in 1..n |-> x]

Reverse(s) == [k \in 1..Len(s) |-> s[Len(s) - k + 1]]

\* the series of up to MaxVarReturns returns in ascending order
Ascending ==
    {s \in {Repeat(VarValues[1], a) \o Repeat(VarValues[2], b) \o Repeat(VarValues[3], c)
                \o Repeat(VarValues[4], d) :
                a \in 0..MaxVarReturns, b \in 0..MaxVarReturns, c \in 0..MaxVarReturns,
                d \in 0..MaxVarReturns} : Len(s) <= MaxVarReturns}

InitVar ==
    /\ NoBacktest
    /\ fn = "calculate_cvar"
    /\ args \in Ascending \cup {Reverse(s) : s \in Ascending}
    /\ ret = None

Call_var ==
    /\ fn = "calculate_cvar"
    /\ "calculate_var" \notin DOMAIN ret
    /\ ret' = [f \in DOMAIN ret \cup {"calculate_var"} |->
                  IF f = "calculate_var" THEN calculate_var(args, 95) ELSE ret[f]]
    /\ UNCHANGED <<backtest, fn, args>>

Call_cvar ==
    /\ fn = "calculate_cvar"
    /\ "calculate_cvar" \notin DOMAIN ret
    /\ ret' = [f \in DOMAIN ret \cup {"calculate_cvar"} |->
                  IF f = "calculate_cvar" THEN calculate_cvar(args, 95) ELSE ret[f]]
    /\ UNCHANGED <<backtest, fn, args>>

NextVar == Call_var \/ Call_cvar

SpecVar == InitVar /\ [][NextVar]_vars

-----------------------------------------------------------------------------
(* Properties                                                              *)

Last(q) == q[Len(q)]

\* the loop body ran on bar i in this step
BarStep == pc = "loop" /\ pc' = "loop" /\ i' = i + 1

\* the bar the step ran on
BarClose == Close(data, i + 1)

\* C1: whenever run_backtest returns, final_capital is exactly the last value of
\* the equity curve, after a forced close as well as when the run ended flat
Thm_C1 == pc = "done" => result.final_capital = Last(result.equity_curve).value

\* a run that returned after a forced close of an open position
Wit_C1 ==
    /\ pc = "done"
    /\ position # None
    /\ Last(result.trades).exit_time = Len(data) - 1
    /\ result.final_capital = cash

Thm_C3 ==
    [][/\ (BarStep /\ ~(signal'.entry /\ position = None)
                   /\ ~(signal'.exit /\ position # None))
              => UNCHANGED <<cash, position, position_size, trades>>
       /\ (position # None /\ position' # None) => position' = position]_vars

\* an entry signal arrived on a later bar than the one the open position was
\* entered on, and was ignored
Wit_C3 ==
    /\ pc = "loop"
    /\ signal # None
    /\ signal.entry
    /\ position # None
    /\ position.entry_time < i - 1

\* C4: opening a position adds no Trade; the trade log only ever grows by the
\* one Trade of the position that is open, when that position is closed by an
\* exit signal or by the forced close after the last bar (at the last close,
\* with the same slippage and commission); so when run_backtest returns every
\* opened position has exactly one Trade
Thm_C4 ==
    [][/\ (position = None /\ position' # None) => trades' = trades
       /\ (position # None /\ position' = None) => Len(trades') = Len(trades) + 1
       /\ trades' # trades =>
             /\ position # None
             /\ Len(trades') = Len(trades) + 1
             /\ SubSeq(trades', 1, Len(trades)) = trades
             /\ Last(trades').entry_time = position.entry_time
             /\ Last(trades').entry_price = position.entry_price
             /\ Last(trades').size = position.size
       /\ (pc = "loop" /\ pc' = "result") =>
             IF position = None THEN trades' = trades /\ cash' = cash
             ELSE /\ Len(trades') = Len(trades) + 1
                  /\ Last(trades').exit_time = Len(data) - 1
                  /\ Last(trades').exit_price =
                         RMul(Close(data, Len(data)), RSub(R(1), slippage))
                  /\ RSub(cash', cash) =
                         RMul(RMul(position_size, Last(trades').exit_price),
                              RSub(R(1), commission))
       /\ pc' = "done" => result'.trades = trades]_vars

\* a run that returned with one round trip and one forced close in the log
Wit_C4 ==
    /\ pc = "done"
    /\ Len(result.trades) = 2
    /\ position # None
    /\ result.trades[1].exit_time < position.entry_time
    /\ result.trades[2].entry_time = position.entry_time

\* C5: an entry signal while flat with cash c at close p opens a position of
\* value 0.95 c at price p (1 + slippage), of size value / price, and leaves
\* cash c - value - value * commission
Thm_C5 ==
    [][(BarStep /\ signal'.entry /\ position = None) =>
          LET value == RMul(Frac(19, 20), cash)
              price == RMul(BarClose, RAdd(R(1), slippage))
          IN  /\ position' # None
              /\ position'.entry_price = price
              /\ position'.entry_time = i
              /\ position'.size = position_size'
              /\ RMul(position_size', price) = value
              /\ RAdd(cash', RMul(value, RAdd(R(1), commission))) = cash
              /\ trades' = trades]_vars

\* a position was entered on the last bar
Wit_C5 ==
    /\ pc = "loop"
    /\ position # None
    /\ position.entry_time = i - 1
    /\ signal.entry

\* C6: an exit signal while in position with size s at close p sells at
\* p (1 - slippage): cash grows by s * price * (1 - commission), one Trade with
\* the stored entry price, time and size and that exit price is appended, and
\* the state is flat with size 0
Thm_C6 ==
    [][(BarStep /\ signal'.exit /\ position # None) =>
          LET price == RMul(BarClose, RSub(R(1), slippage))
              exit_value == RMul(position_size, price)
          IN  /\ RSub(cash', cash) = RMul(exit_value, RSub(R(1), commission))
              /\ Len(trades') = Len(trades) + 1
              /\ SubSeq(trades', 1, Len(trades)) = trades
              /\ Last(trades').entry_price = position.entry_price
              /\ Last(trades').entry_time = position.entry_time
              /\ Last(trades').size = position.size
              /\ Last(trades').exit_price = price
              /\ Last(trades').exit_time = i
              /\ position' = None
              /\ position_size' = Zero]_vars

\* a position was closed by an exit signal on the last bar
Wit_C6 ==
    /\ pc = "loop"
    /\ signal # None
    /\ signal.exit
    /\ position = None
    /\ Len(trades) >= 1
    /\ Last(trades).exit_time = i - 1

\* C7: the equity point appended for a bar is cash when no position is open
\* after the bar's signal was applied, and cash + size * close otherwise
Thm_C7 ==
    [][BarStep =>
          /\ Len(equity') = Len(equity) + 1
          /\ SubSeq(equity', 1, Len(equity)) = equity
          /\ Last(equity') = IF position' = None THEN cash'
                             ELSE RAdd(cash', RMul(position'.size, BarClose))]_vars

\* a bar was marked to market with a position open
Wit_C7 ==
    /\ pc = "loop"
    /\ position # None
    /\ Len(equity) >= 2
    /\ Last(equity) # cash

\* C8: with initial capital > 0, commission >= 0 and slippage >= 0, cash is
\* never negative at any point of run_backtest
Orig_C8 ==
    (pc # "call" /\ RLt(Zero, initial_capital) /\ RLe(Zero, commission)
        /\ RLe(Zero, slippage)) => RLe(Zero, cash)

\* the range in which the 5% reserve does cover the costs: commission <= 0.05
\* (entry costs at most the reserve) and slippage <= 1 (the sale price is not
\* negative)
CashCoveredWithinReserve ==
    (pc # "call" /\ RLt(Zero, initial_capital)
        /\ RLe(Zero, commission) /\ RLe(commission, Frac(5, 100))
        /\ RLe(Zero, slippage) /\ RLe(slippage, R(1))) => RLe(Zero, cash)

\* C9: every history handed to generate_signals is a prefix of the bars longer
\* than the lookback: the first has lookback + 1 bars and each later one has
\* one bar more
Thm_C9 ==
    /\ [](slice_data # None =>
             /\ Len(slice_data) >= strategy.lookback + 1
             /\ slice_data = SubSeq(data, 1, Len(slice_data)))
    /\ [][slice_data' # slice_data =>
             Len(slice_data') = IF slice_data = None THEN strategy.lookback + 1
                                ELSE Len(slice_data) + 1]_vars

\* the second call of a run
Wit_C9 == slice_data # None /\ Len(slice_data) = strategy.lookback + 2

\* C10: no Signal returned by a registered strategy has entry and exit both true
Thm_C10 == signal # None => ~(signal.entry /\ signal.exit)

\* each kind of Signal is returned
Wit_C10 == signal # None /\ signal.exit /\ ~signal.entry /\ strategy_name = "breakout"

\* the configuration the specification calls invalid
InvalidConfig ==
    RLe(initial_capital, Zero) \/ RLt(commission, Zero) \/ RLt(slippage, Zero)

\* none of the simulation state has been created
NoSimulationState ==
    cash = None /\ position = None /\ position_size = None /\ trades = None
        /\ equity = None

\* C11: with non-positive initial capital, or a negative commission or slippage
\* rate, run_backtest fails before the loop starts and before cash, position,
\* trade log or equity are created
Orig_C11 ==
    InvalidConfig => (pc \in {"call", "error"} /\ NoSimulationState /\ result = None)

\* a call with negative capital and negative rates that simulated bars, traded
\* and returned a BacktestResult
Wit_C11 ==
    /\ pc = "done"
    /\ RLt(initial_capital, Zero) /\ RLt(commission, Zero) /\ RLt(slippage, Zero)
    /\ strategy_name \in StrategyNames
    /\ result # None
    /\ Len(result.trades) >= 1
    /\ exception = None

\* the history is shorter than the lookback of the (registered) strategy
ShortData ==
    strategy_name \in StrategyNames /\ Len(data) < STRATEGIES[strategy_name].lookback

Thm_C13 ==
    /\ Cardinality(StrategyNames) = 8
    /\ \A name \in StrategyNames :
           get_strategy(name) = STRATEGIES[name] /\ get_strategy(name).name = name
    /\ \A name \in ArgNames \ StrategyNames : Raised(get_strategy(name))
    /\ (pc # "call" /\ strategy_name \in StrategyNames) =>
           strategy = STRATEGIES[strategy_name]
    /\ (pc # "call" /\ strategy_name \notin StrategyNames) =>
           /\ pc = "error"
           /\ exception = Raise("ValueError", 330)
           /\ strategy = None
           /\ NoSimulationState
           /\ result = None

\* a call with an unknown strategy name has failed
Wit_C13 == strategy_name = "buy_and_hold" /\ pc = "error" /\ exception # None

\* an intermediate value of the strategy's computation on history d is not
\* finite: the RSI's gain / loss ratio of the current or the previous bar, the
\* z-score of the current or the previous bar (0 / 0 over a window of equal
\* closes), or a rolling mean whose window is not filled yet
NonFiniteIntermediate(name, d, p) ==
    LET n == Len(d)
    IN  CASE name = "rsi_reversal" ->
                LET period == Get(p, "period", 14)
                IN  /\ n >= period + 1
                    /\ \/ ~IsFinite(calculate_rs(d, n, period))
                       \/ ~IsFinite(calculate_rs(d, n - 1, period))
          [] name = "mean_reversion" ->
                LET period == Get(p, "period", 20)
                IN  /\ n >= period
                    /\ \/ ZIsNaN(RSub(CloseBack(d, 1), RollMean(d, n, period)),
                                 RollVar(d, n, period))
                       \/ ZIsNaN(RSub(CloseBack(d, 2), RollMean(d, n - 1, period)),
                                 RollVar(d, n - 1, period))
          [] name = "bollinger_bands" ->
                LET period == Get(p, "period", 20)
                IN  n >= period /\ IsNaN(RollMean(d, n - 1, period))
          [] name = "sma_crossover" ->
                LET slow == Get(p, "slow_period", 50)
                IN  n >= slow + 1 /\ IsNaN(RollMean(d, n - 1, slow))
          [] OTHER -> FALSE

\* C14: on a bar where an intermediate value of the strategy is not finite the
\* signal is the empty Signal, the call goes on, and the bar gets its equity
\* point
Orig_C14 ==
    (pc = "loop" /\ signal # None /\ exception = None
        /\ NonFiniteIntermediate(strategy_name, slice_data, params)) =>
        /\ signal = EmptySignal
        /\ Len(equity) = Len(slice_data) - strategy.lookback + 1

\* the RSI's gain / loss ratio on the bar is infinite (no loss in the window)
\* and the bar's signal is an entry
Wit_C14 ==
    /\ pc = "loop" /\ signal # None
    /\ strategy_name = "rsi_reversal"
    /\ IsInf(calculate_rs(slice_data, Len(slice_data), Get(params, "period", 14)))
    /\ signal.entry
    /\ position # None /\ position.entry_time = i - 1

\* C15: no strategy emits the same signal on two consecutive bars (a signal
\* marks a crossing between the previous and the current bar, so it cannot
\* fire again on the next bar while the condition persists)
Orig_C15 ==
    \A j \in 1..(Len(snaps) - 1) :
        /\ ~(snaps[j].signal.entry /\ snaps[j + 1].signal.entry)
        /\ ~(snaps[j].signal.exit /\ snaps[j + 1].signal.exit)

\* Breakout has emitted an entry on each of two consecutive bars, the second
\* while the position of the first was open
Wit_C15 ==
    /\ strategy_name = "breakout"
    /\ Len(snaps) >= 2
    /\ snaps[Len(snaps) - 1].signal.entry
    /\ snaps[Len(snaps)].signal.entry
    /\ snaps[Len(snaps)].position # None

\* where C15 does hold: the seven strategies that compare the previous bar
\* with the current one never repeat a signal on the next bar
CrossingStrategiesDoNotRefire == strategy_name # "breakout" => Orig_C15

\* two recorded calls were made with the same strategy, parameters, capital and
\* cost rates
SameConfig(a, b) ==
    /\ a.strategy_name = b.strategy_name
    /\ a.params = b.params
    /\ a.initial_capital = b.initial_capital
    /\ a.commission = b.commission
    /\ a.slippage = b.slippage

\* the value the returned equity curve holds for bar k
CurvePoint(call, k) ==
    call.result.equity_curve[k - STRATEGIES[call.strategy_name].lookback + 2].value

\* C16 as stated, read on what the calls return: for two calls with the same
\* configuration whose bars agree on bars 0..k the equity point of bar k is
\* the same
Orig_C16 ==
    \A a \in 1..Len(calls) : \A b \in 1..Len(calls) :
        (/\ SameConfig(calls[a], calls[b])
         /\ calls[a].result # None /\ calls[b].result # None) =>
            \A j \in 1..Len(calls[a].snaps) :
                LET k == calls[a].snaps[j].bar
                IN  (/\ j <= Len(calls[b].snaps)
                     /\ SubSeq(calls[a].data, 1, k + 1) = SubSeq(calls[b].data, 1, k + 1))
                        => CurvePoint(calls[a], k) = CurvePoint(calls[b], k)

\* C16 amended: for two calls with the same configuration whose bars agree on
\* bars 0..k, the signal on bar k, the cash, position and trade log after bar k
\* and the equity point of bar k are the same when the iteration of bar k ends,
\* whatever the bars after k are; the returned curve keeps that point unless
\* bar k is the call's last bar and a position is open, when the forced close
\* overwrites it with the final cash
Thm_C16 ==
    /\ \A c \in 1..Len(calls) : calls[c].result # None =>
           \A j \in 1..Len(calls[c].snaps) :
               LET k == calls[c].snaps[j].bar
               IN  \/ CurvePoint(calls[c], k) = calls[c].snaps[j].equity
                   \/ /\ k = Len(calls[c].data) - 1
                      /\ calls[c].snaps[j].position # None
                      /\ CurvePoint(calls[c], k) = calls[c].result.final_capital
    /\ \A a \in 1..Len(calls) : \A b \in 1..Len(calls) :
           SameConfig(calls[a], calls[b]) =>
               \A j \in 1..Len(calls[a].snaps) :
                   LET k == calls[a].snaps[j].bar
                   IN  (/\ j <= Len(calls[b].snaps)
                        /\ SubSeq(calls[a].data, 1, k + 1) = SubSeq(calls[b].data, 1, k + 1))
                           => calls[b].snaps[j] = calls[a].snaps[j]

\* two calls with the same configuration whose bars agree up to a bar on which
\* a position was entered and differ on the bar after it
Wit_C16 ==
    /\ Len(calls) >= 2
    /\ SameConfig(calls[1], calls[2])
    /\ Len(calls[1].snaps) >= 2 /\ Len(calls[2].snaps) >= 2
    /\ calls[1].snaps[1] = calls[2].snaps[1]
    /\ calls[1].snaps[1].signal.entry
    /\ calls[1].data[Len(calls[1].data)] # calls[2].data[Len(calls[2].data)]
    /\ calls[1].snaps[2] # calls[2].snaps[2]

NaNGivesEmptySignal ==
    (pc = "loop" /\ signal # None /\ exception = None) =>
        LET d == slice_data
            n == Len(d)
        IN  CASE strategy_name = "rsi_reversal" ->
                    LET period == Get(params, "period", 14)
                    IN  (n >= period + 1 /\ (IsNaN(calculate_rsi(d, n, period))
                                               \/ IsNaN(calculate_rsi(d, n - 1, period))))
                            => signal = EmptySignal
              [] strategy_name = "mean_reversion" ->
                    NonFiniteIntermediate(strategy_name, d, params) => signal = EmptySignal
              [] OTHER -> TRUE

\* |x - v| <= tol
About(x, v, tol) == RLe(RSub(x, v), tol) /\ RLe(RSub(v, x), tol)

\* the run has returned one Trade, entered on a bar that closed at 100 and
\* exited on a bar that closed at 110
OneRoundTrip100To110 ==
    /\ pc = "done"
    /\ Len(result.trades) = 1
    /\ data[result.trades[1].entry_time + 1].close = 100
    /\ data[result.trades[1].exit_time + 1].close = 110

\* the amounts of the round trip, from the recorded Trade and the rates
ScenarioPositionValue == RMul(result.trades[1].size, result.trades[1].entry_price)

ScenarioEntryCommission == RMul(ScenarioPositionValue, commission)

ScenarioExitValue == RMul(result.trades[1].size, result.trades[1].exit_price)

ScenarioExitCommission == RMul(ScenarioExitValue, commission)

\* the cash flows of the round trip add up to the final capital
ScenarioCashFlows ==
    result.final_capital =
        RAdd(RSub(RSub(initial_capital, ScenarioPositionValue), ScenarioEntryCommission),
             RSub(ScenarioExitValue, ScenarioExitCommission))

\* C18 as stated: the round trip from close 100 to close 110 has position value
\* 9500, buy price about 100.05, size about 94.92, entry commission about 9.5,
\* sell price about 109.945, exit value about 10436.8, exit commission about
\* 10.44, pnl about 939.5 and pnl% about 9.89, each to one unit of its last
\* digit
Orig_C18 ==
    OneRoundTrip100To110 =>
        /\ ScenarioCashFlows
        /\ ScenarioPositionValue = R(9500)
        /\ About(result.trades[1].entry_price, Frac(10005, 100), Frac(1, 100))
        /\ About(result.trades[1].size, Frac(9492, 100), Frac(1, 100))
        /\ About(ScenarioEntryCommission, Frac(95, 10), Frac(1, 10))
        /\ About(result.trades[1].exit_price, Frac(109945, 1000), Frac(1, 1000))
        /\ About(ScenarioExitValue, Frac(104368, 10), Frac(1, 10))
        /\ About(ScenarioExitCommission, Frac(1044, 100), Frac(1, 100))
        /\ About(result.trades[1].pnl, Frac(9395, 10), Frac(1, 10))
        /\ About(result.trades[1].pnl_pct, Frac(989, 100), Frac(1, 100))

\* C18 amended: the round trip from close 100 to close 110 has position value
\* 9500, buy price 100.05, size about 94.95, entry commission 9.5, sell price
\* 109.945, exit value about 10439.6, exit commission about 10.44, pnl about
\* 939.56 and pnl% about 9.89, and leaves a final capital of about 10919.6
Thm_C18 ==
    OneRoundTrip100To110 =>
        /\ ScenarioCashFlows
        /\ ScenarioPositionValue = R(9500)
        /\ result.trades[1].entry_price = Frac(10005, 100)
        /\ About(result.trades[1].size, Frac(9495, 100), Frac(1, 100))
        /\ ScenarioEntryCommission = Frac(95, 10)
        /\ result.trades[1].exit_price = Frac(109945, 1000)
        /\ About(ScenarioExitValue, Frac(104396, 10), Frac(1, 10))
        /\ About(ScenarioExitCommission, Frac(1044, 100), Frac(1, 100))
        /\ About(result.trades[1].pnl, Frac(93956, 100), Frac(1, 100))
        /\ About(result.trades[1].pnl_pct, Frac(989, 100), Frac(1, 100))
        /\ About(result.final_capital, Frac(109196, 10), Frac(1, 10))

\* a run that entered at close 100, held over a close of 120 and sold at 110
Wit_C18 ==
    /\ OneRoundTrip100To110
    /\ result.trades[1].direction = "long"
    /\ result.trades[1].exit_time > result.trades[1].entry_time
    /\ RLt(R(10000), result.final_capital)

\* C19: a constructed Trade has pnl (exit_price - entry_price) * size when it
\* is long and (entry_price - exit_price) * size when it is short, pnl_pct the
\* same price difference divided by entry_price times 100, and duration
\* exit_time - entry_time, whatever pnl the caller passed in; construction
\* leaves the six stored fields as they were given
Thm_C19 ==
    /\ [](gpc = "Trade" =>
            /\ trade.direction = "long" =>
                  /\ trade.pnl = RMul(RSub(trade.exit_price, trade.entry_price), trade.size)
                  /\ trade.pnl_pct = RMul(RDiv(RSub(trade.exit_price, trade.entry_price),
                                               trade.entry_price), R(100))
            /\ trade.direction = "short" =>
                  /\ trade.pnl = RMul(RSub(trade.entry_price, trade.exit_price), trade.size)
                  /\ trade.pnl_pct = RMul(RDiv(RSub(trade.entry_price, trade.exit_price),
                                               trade.entry_price), R(100))
            /\ trade.duration = trade.exit_time - trade.entry_time)
    /\ [][gpc = "Trade.__init__" =>
            \A f \in {"entry_time", "exit_time", "entry_price", "exit_price",
                       "direction", "size"} : trade'[f] = trade[f]]_vars

\* a short Trade sold at 125 and bought back at 100, constructed with a pnl
\* argument of 7: its pnl is 25 * 3/2
Wit_C19 ==
    /\ gpc = "Trade"
    /\ trade.direction = "short"
    /\ trade.entry_price = R(125) /\ trade.exit_price = R(100)
    /\ trade.size = Frac(3, 2)
    /\ trade.pnl = Frac(75, 2)
    /\ trade.pnl_pct = R(20)
    /\ trade.duration = 2

\* the number of points of the grid from its j-th parameter on
RECURSIVE PointsFrom(_)
PointsFrom(j) ==
    IF j > Len(param_grid) THEN 1 ELSE Len(param_grid[j].values) * PointsFrom(j + 1)

\* the k-th point of the Cartesian product (k from 0), the last parameter
\* running fastest, as the dict of its parameter values
PointParams(k) ==
    [key \in {param_grid[j].name : j \in 1..Len(param_grid)} |->
        LET j == CHOOSE l \in 1..Len(param_grid) : param_grid[l].name = key
        IN  param_grid[j].values[((k \div PointsFrom(j + 1)) % Len(param_grid[j].values)) + 1]]

\* the calls of run_backtest that returned a result
Completed == {k \in 1..Len(calls) : calls[k].result # None}

\* the parameter columns of a row
RowParams(row) == [key \in {param_grid[j].name : j \in 1..Len(param_grid)} |-> row[key]]

\* the rows hold one row for each completed call and nothing else
OneRowPerCompleted(rows) ==
    /\ Len(rows) = Cardinality(Completed)
    /\ \A k \in Completed :
           Cardinality({j \in 1..Len(rows) : RowParams(rows[j]) = calls[k].params}) = 1

\* C20: grid_search calls run_backtest once for each point of the Cartesian
\* product of the grid, in product order; a call that raises is skipped and
\* the later points are still run; the returned table has exactly one row for
\* each call that completed
Thm_C20 ==
    gpc \in {"for", "try", "return"} =>
        /\ Len(combinations) = PointsFrom(1)
        /\ Len(calls) = grid_i
        /\ Len(calls) <= PointsFrom(1)
        /\ \A k \in 1..Len(calls) : calls[k].params = PointParams(k - 1)
        /\ gpc = "try" => grid_i < PointsFrom(1) /\ params = PointParams(grid_i)
        /\ OneRowPerCompleted(results)
        /\ gpc = "return" => Len(calls) = PointsFrom(1) /\ OneRowPerCompleted(df)

\* a sweep of four points has returned: its first two calls raised, its last
\* two completed and are the two rows of the table
Wit_C20 ==
    /\ gpc = "return"
    /\ Len(calls) = 4
    /\ calls[1].exception # None /\ calls[2].exception # None
    /\ calls[3].result # None /\ calls[4].result # None
    /\ Len(df) = 2
    /\ Len(calls[4].result.trades) > 0

\* what a call returns or raises
Outcome(frame) == [result |-> frame.result, exception |-> frame.exception]

\* the frames of the first and of the second of the two calls made together
Run1 == IF gpc = "run1" THEN Suspended ELSE other_call

Run2 == IF gpc = "run2" THEN Suspended ELSE other_call

IsRunningMax(curve, k, m) ==
    /\ \E l \in 1..k : curve[l] = m
    /\ \A l \in 1..k : RLe(curve[l], m)

\* (equity - running maximum) / running maximum * 100 at position k
DrawdownAt(curve, k) ==
    LET m == CHOOSE v \in {curve[l] : l \in 1..k} : IsRunningMax(curve, k, v)
    IN  RMul(RDiv(RSub(curve[k], m), m), R(100))

FallsBelowRunningMax(curve) ==
    \E k \in 1..Len(curve) : \E l \in 1..k : RLt(curve[k], curve[l])

ScenarioCurve == <<R(100), R(120), R(90), R(95), R(130)>>

\* C22: the max drawdown returned is the minimum over the curve of
\* (equity - running maximum) / running maximum * 100 and is never positive;
\* for [100,120,90,95,130] it is -25, and for a curve of fewer than 2 points
\* or one that never falls below its running maximum it is 0
Thm_C22 ==
    (fn = "calculate_max_drawdown" /\ ret # None) =>
        /\ RLe(ret[1], Zero)
        /\ (Len(args) < 2 \/ ~FallsBelowRunningMax(args)) => ret[1] = Zero
        /\ (Len(args) >= 2 /\ FallsBelowRunningMax(args)) =>
              /\ \E k \in 1..Len(args) : ret[1] = DrawdownAt(args, k)
              /\ \A k \in 1..Len(args) :
                     IsNaN(DrawdownAt(args, k)) \/ RLe(ret[1], DrawdownAt(args, k))
        /\ args = ScenarioCurve => ret[1] = R(-25)

\* the call on [100,120,90,95,130] has returned -25
Wit_C22 == fn = "calculate_max_drawdown" /\ args = ScenarioCurve /\ ret # None /\ ret[1] = R(-25)

\* the position of the trough: the first position where the drawdown is deepest
TroughAt(curve) ==
    CHOOSE k \in 1..Len(curve) :
        /\ ~IsNaN(DrawdownAt(curve, k))
        /\ \A l \in 1..Len(curve) :
               IsNaN(DrawdownAt(curve, l)) \/ RLe(DrawdownAt(curve, k), DrawdownAt(curve, l))
        /\ \A l \in 1..(k - 1) : DrawdownAt(curve, l) # DrawdownAt(curve, k)

\* the position of the peak the trough fell from: the last position before
\* the trough that holds the running maximum
PeakAt(curve) ==
    CHOOSE k \in 1..TroughAt(curve) :
        /\ IsRunningMax(curve, TroughAt(curve), curve[k])
        /\ \A l \in (k + 1)..TroughAt(curve) : curve[l] # curve[k]

\* C23 as stated: the duration returned is the number of bars from the peak
\* through the trough of the max drawdown, both included
Orig_C23 ==
    (fn = "calculate_max_drawdown" /\ ret # None /\ RLt(ret[1], Zero)) =>
        ret[2] = TroughAt(args) - PeakAt(args) + 1

\* which bars lie below the running maximum
Underwater(curve) == [k \in 1..Len(curve) |-> RLt(DrawdownAt(curve, k), Zero)]

\* the lengths of the contiguous runs of TRUE
RunLengths(flags) ==
    {n \in 1..Len(flags) : \E a \in 1..(Len(flags) - n + 1) : \A k \in a..(a + n - 1) : flags[k]}

\* C23 amended: the duration returned is the length in bars of the longest
\* contiguous run of bars whose equity lies below the running maximum, 0 when
\* there is none; for [100,120,90,95,130] it is 2, the bars 90 and 95
Thm_C23 ==
    (fn = "calculate_max_drawdown" /\ ret # None) =>
        \E runs \in {RunLengths(Underwater(args))} :
            /\ runs = {} => ret[2] = 0
            /\ runs # {} => ret[2] \in runs /\ \A n \in runs : n <= ret[2]
            /\ args = ScenarioCurve => ret[2] = 2

\* on [100,120,90,95,130] the call has returned the duration 2: the peak is
\* the second bar, the trough the third, the bars below the running maximum
\* are the third and the fourth
Wit_C23 ==
    /\ fn = "calculate_max_drawdown" /\ ret # None
    /\ args = ScenarioCurve
    /\ ret[2] = 2
    /\ TroughAt(args) = 3 /\ PeakAt(args) = 2
    /\ Underwater(args) = <<FALSE, FALSE, TRUE, TRUE, FALSE>>

\* C24: on the empty trade log calculate_trade_stats returns total_trades 0,
\* win_rate 0, profit_factor 0, avg_win 0, avg_loss 0, expectancy 0 and both
\* streak counters 0
Thm_C24 ==
    (fn = "calculate_trade_stats" /\ args = <<>> /\ ret # None) =>
        /\ ret.total_trades = 0
        /\ ret.win_rate = Zero
        /\ ret.profit_factor = Zero
        /\ ret.avg_win = Zero /\ ret.avg_loss = Zero
        /\ ret.expectancy = Zero
        /\ ret.max_consecutive_wins = 0 /\ ret.max_consecutive_losses = 0

\* the call on the empty log has returned
Wit_C24 ==
    /\ fn = "calculate_trade_stats" /\ args = <<>> /\ ret # None
    /\ ret.total_trades = 0 /\ ret.avg_trade_duration = "0d"

\* C26: on a non-empty trade log max_consecutive_wins is the length of the
\* longest contiguous run of trades with pnl > 0 and max_consecutive_losses
\* the length of the longest contiguous run of trades with pnl <= 0
Thm_C26 ==
    (fn = "calculate_trade_stats" /\ args # <<>> /\ ret # None) =>
        \E won \in {RunLengths([k \in 1..Len(args) |-> RLt(Zero, args[k].pnl)])},
           lost \in {RunLengths([k \in 1..Len(args) |-> RLe(args[k].pnl, Zero)])} :
            /\ ret.max_consecutive_wins \in won \cup {0}
            /\ \A n \in won : n <= ret.max_consecutive_wins
            /\ ret.max_consecutive_losses \in lost \cup {0}
            /\ \A n \in lost : n <= ret.max_consecutive_losses

\* a log of four trades, win, break-even, loss, win: the longest winning run
\* is 1, the longest losing run is 2
Wit_C26 ==
    /\ fn = "calculate_trade_stats" /\ ret # None
    /\ Len(args) = 4
    /\ RLt(Zero, args[1].pnl) /\ args[2].pnl = Zero
    /\ RLt(args[3].pnl, Zero) /\ RLt(Zero, args[4].pnl)
    /\ ret.max_consecutive_wins = 1 /\ ret.max_consecutive_losses = 2

\* the sum of the pnl of the trades at the positions of a set
RECURSIVE PnlOver(_, _)
PnlOver(log, positions) ==
    IF positions = {} THEN Zero
    ELSE LET k == CHOOSE j \in positions : TRUE
         IN  RAdd(log[k].pnl, PnlOver(log, positions \ {k}))

\* two numbers are equal
Same(a, b) == RLe(a, b) /\ RLe(b, a)

\* C27: on a non-empty trade log win_rate is wins / total * 100,
\* profit_factor is gross profit / |gross loss| and +infinity when no trade has
\* pnl < 0, avg_win and avg_loss are the mean pnl of the trades with pnl > 0
\* and with pnl < 0, 0 for an empty set, and expectancy is
\* w * avg_win - (1 - w) * |avg_loss| with w = wins / total
Thm_C27 ==
    (fn = "calculate_trade_stats" /\ args # <<>> /\ ret # None) =>
        \E won \in {{k \in 1..Len(args) : RLt(Zero, args[k].pnl)}},
           lost \in {{k \in 1..Len(args) : RLt(args[k].pnl, Zero)}} :
            /\ ret.total_trades = Len(args)
            /\ Same(RMul(ret.win_rate, R(Len(args))), R(100 * Cardinality(won)))
            /\ lost = {} => ret.profit_factor = <<1, 0>>
            /\ lost # {} =>
                  Same(RMul(ret.profit_factor, RAbs(PnlOver(args, lost))), PnlOver(args, won))
            /\ Same(RMul(ret.avg_win, R(Cardinality(won))), PnlOver(args, won))
            /\ won = {} => ret.avg_win = Zero
            /\ Same(RMul(ret.avg_loss, R(Cardinality(lost))), PnlOver(args, lost))
            /\ lost = {} => ret.avg_loss = Zero
            /\ Same(ret.expectancy,
                    RSub(RMul(Frac(Cardinality(won), Len(args)), ret.avg_win),
                         RMul(RSub(R(1), Frac(Cardinality(won), Len(args))),
                              RAbs(ret.avg_loss))))

\* a log of break-even trades only: no win, no loss, profit factor +infinity
Wit_C27 ==
    /\ fn = "calculate_trade_stats" /\ ret # None
    /\ Len(args) = 2 /\ args[1].pnl = Zero /\ args[2].pnl = Zero
    /\ ret.profit_factor = <<1, 0>>
    /\ ret.win_rate = Zero /\ ret.expectancy = Zero

\* the returns are all the same
ZeroVariance(returns) == \A k \in 1..Len(returns) : returns[k] = returns[1]

Thm_C30 ==
    (fn = "calculate_cvar" /\ DOMAIN ret = {"calculate_var", "calculate_cvar"}) =>
        \E var \in {ret.calculate_var}, cvar \in {ret.calculate_cvar} :
        \E tail \in {{k \in 1..Len(args) : RLe(args[k], var)}} :
            /\ RLe(cvar, var)
            /\ Len(args) < 10 => var = Zero
            /\ Len(args) >= 10 =>
                  /\ Cardinality({k \in 1..Len(args) : RLt(args[k], var)})
                        <= ((Len(args) - 1) * 5) \div 100 + 1
                  /\ Cardinality(tail) >= ((Len(args) - 1) * 5) \div 100 + 1
            /\ tail = {} => cvar = var
            /\ tail # {} =>
                  Same(RMul(cvar, R(Cardinality(tail))),
                       SeriesSum([k \in 1..Len(args) |->
                                     IF k \in tail THEN args[k] ELSE Zero]))

\* ten returns, one of -1/5, one of -1/10 and eight of 1/10: the VaR is
\* -1/5 + 0.45 * 1/10 = -31/200 and the CVaR is -1/5
Wit_C30 ==
    /\ fn = "calculate_cvar"
    /\ args = <<Frac(-1, 5), Frac(-1, 10)>> \o Repeat(Frac(1, 10), 8)
    /\ DOMAIN ret = {"calculate_var", "calculate_cvar"}
    /\ ret.calculate_var = Frac(-31, 200)
    /\ ret.calculate_cvar = Frac(-1, 5)

\* the trades of a log are in order and apart: none ends before it begins,
\* each ends strictly before the next begins
Chronological(log) ==
    /\ \A k \in 1..Len(log) : log[k].exit_time >= log[k].entry_time
    /\ \A k \in 1..(Len(log) - 1) : log[k].exit_time < log[k + 1].entry_time

\* C28: the trades of the log are chronologically ordered and never overlap:
\* no exit_time is earlier than its entry_time, a trade closed by an exit
\* signal ends strictly later than it began, and each trade ends strictly
\* before the next one begins
Thm_C28 ==
    /\ [](trades # None => Chronological(trades))
    /\ [](pc = "done" => Chronological(result.trades))
    /\ [][(pc = "loop" /\ pc' = "loop" /\ Len(trades') > Len(trades)) =>
             /\ Last(trades').exit_time = i
             /\ Last(trades').exit_time > Last(trades').entry_time
             /\ position' = None]_vars
    /\ [][(pc = "loop" /\ position = None /\ position' # None) =>
             /\ position'.entry_time = i
             /\ \A k \in 1..Len(trades) : trades[k].exit_time < i]_vars

\* a run has returned two trades: the first closed by an exit signal, the
\* second entered on the last bar and closed on it by the forced close
Wit_C28 ==
    /\ pc = "done"
    /\ Len(result.trades) = 2
    /\ result.trades[1].exit_time > result.trades[1].entry_time
    /\ result.trades[1].exit_time < result.trades[2].entry_time
    /\ result.trades[2].exit_time = result.trades[2].entry_time
    /\ result.trades[2].exit_time = Len(data) - 1

\* the commissions charged on the entry and on the exit of a trade
CommissionsOf(t) ==
    RAdd(RMul(RMul(t.size, t.entry_price), commission),
         RMul(RMul(t.size, t.exit_price), commission))

RECURSIVE SumCommissions(_)
SumCommissions(log) ==
    IF log = <<>> THEN Zero ELSE RAdd(CommissionsOf(Head(log)), SumCommissions(Tail(log)))

\* C29: final_capital = initial_capital + the sum of the trades' pnl - the sum
\* of the entry and exit commissions; with commission 0 the gain is the sum of
\* the pnl; with no entry executed final_capital and every equity point equal
\* initial_capital
Thm_C29 ==
    pc = "done" =>
        /\ Same(result.final_capital,
                RSub(RAdd(initial_capital, SumPnl(result.trades)),
                     SumCommissions(result.trades)))
        /\ commission = Zero =>
              Same(RSub(result.final_capital, initial_capital), SumPnl(result.trades))
        /\ result.trades = <<>> =>
              /\ result.final_capital = initial_capital
              /\ \A k \in 1..Len(result.equity_curve) :
                     result.equity_curve[k].value = initial_capital

\* a run under a commission of 1/20 has returned two trades and a final
\* capital below the initial capital plus the sum of their pnl
Wit_C29 ==
    /\ pc = "done"
    /\ commission = Frac(1, 20)
    /\ Len(result.trades) = 2
    /\ RLt(Zero, SumCommissions(result.trades))
    /\ RLt(result.final_capital, RAdd(initial_capital, SumPnl(result.trades)))
====
